---- MODULE Spec2Model ----
(***************************************************************************)
(* AIConnect: an authenticating reverse proxy in front of AI backends.     *)
(*                                                                         *)
(* The module holds several specifications over one set of variables:      *)
(*   SpecLB        one load balancer (Ollama or vLLM variant): its polling *)
(*                 sweep and SelectServer;                                 *)
(*   SpecRegistry  the node registry's operations, one call at a time;     *)
(*   SpecRegLock   the registry's calls step by step, with its RWMutex;    *)
(*   SpecRequest   one HTTP request through the auth middleware and the    *)
(*                 proxy router.                                           *)
(*   SpecPublicPath  the middleware on isPublicPath's inputs;              *)
(*   SpecRace      SelectServer callers and a poll worker step by step,    *)
(*                 with the balancer's RWMutex.                            *)
(* Every specification leaves the other components' variables unchanged.   *)
(***************************************************************************)
EXTENDS Integers, Sequences, FiniteSets, TLC

VARIABLES
    \* ---- load balancer (internal/loadbalancer) ----
    variant,          \* "ollama" or "vllm": which balancer type this instance is
    servers,          \* lb.servers, the configured URLs
    metrics,          \* lb.metrics: URL -> ServerMetrics
    roundRobinIndex,  \* lb.roundRobinIndex
    now,              \* the wall clock read by time.Now()
    inflight,         \* URLs whose checkServer goroutine of the running sweep has not finished
    lbOp,             \* history: the last poll or selection and its outcome
    failStreak,       \* history: URL -> failed polls since the last successful one
    readmitted,       \* history: URLs whose last successful poll found them unavailable
    selRun,           \* history: SelectServer calls since the last poll
    \* ---- node registry (internal/registry) ----
    nodes,            \* r.nodes: "host:port" -> Node
    callbacks,        \* r.callbacks: the number of registered listeners
    regOp,            \* history: the last registry call, what it found and emitted
    \* ---- the registry's RWMutex and the goroutines calling the registry ----
    rwWriter,         \* the goroutine holding r.mutex for writing, or "none"
    rwReaders,        \* the number of read locks held on r.mutex
    pc,               \* goroutine -> where it is in its registry call
    call,             \* goroutine -> the call it is executing
    dispatched,       \* callback goroutines started by emit and not yet run
    \* ---- one HTTP request (internal/auth, internal/proxy) ----
    cfg,              \* the configuration the handlers were built with
    ldap,             \* how the directory server behaves during the request
    req,              \* the request as the client sent it
    hdr,              \* r.Header as the handlers have left it so far
    urlPath,          \* r.URL.Path as the handlers have left it so far
    rpc,              \* where the request is: "middleware", "next", "upstream", "done"
    resp,             \* the status written to the client, 0 while none is
    nextCalls,        \* history: calls of next.ServeHTTP by the middleware
    ldapDials,        \* history: connections opened to the directory
    upstreamRequests, \* the requests sent upstream, as the Director left them
    proxyErrors,      \* proxy_errors_total, by backend
    latencyObs,       \* observations in proxy_latency_seconds, by backend
    roundTrip,        \* history: how the exchange with the backend ended, "none" before
    proxyRequests,    \* proxy_requests_total, by backend
    errorHandlerSets, \* assignments to h.openaiProxy.ErrorHandler, the handler's one proxy
    \* ---- the balancer's RWMutex and the goroutines inside the balancer ----
    lbWriter,         \* the poll worker holding lb.mutex for writing, or "none"
    lbReaders,        \* the goroutines holding lb.mutex for reading
    selPc,            \* SelectServer caller -> where it is in its call
    selIdx,           \* SelectServer caller -> the index it loaded for "roundRobinIndex++"
    selRes,           \* SelectServer caller -> what its call decided
    pollPc,           \* the poll worker inside its locked update: where, which URL, what data
    \* ---- the registry's and the balancer's maps as Go keeps them: pointers ----
    heap,             \* the Node and ServerMetrics objects allocated, by address
    nodePtr,          \* r.nodes: "host:port" -> address of the Node
    metricsPtr,       \* lb.metrics: URL -> address of the ServerMetrics
    returned,         \* addresses a query has handed to its caller
    copyOp,           \* history: the last call on the maps and the addresses it touched
    \* ---- main and the background loops it starts ----
    mainPc,           \* where main is: starting a component, serving, stopping
    loopPc,           \* loop -> "notStarted", "waiting" (on its ticker), "sweep", "exited"
    running,          \* component with a Stop method -> its running flag
    ctxDone,          \* component with a Stop method -> its context is cancelled
    wgCount,          \* component with a Stop method -> its WaitGroup counter
    sweeps,           \* history: loop -> sweeps started, the initial one included
    \* ---- one balancer's polling, poll by poll ----
    lbServers,        \* lb.servers: the configured URLs, in the order of the configuration
    pollOf,           \* index of lb.servers -> "running" while its checkServer goroutine runs
    sweepPc,          \* "new", "initialSweep" (inside Start), "waiting" (on ticker.C), "sweep"
    ticks,            \* values buffered in ticker.C (the channel holds one)
    errAtStart        \* history: URL -> its ErrorCount when the current sweep started

\* the load balancer's variables, the clock aside
lbState == <<variant, servers, metrics, roundRobinIndex, inflight, lbOp,
             failStreak, readmitted, selRun>>

regState == <<nodes, callbacks, regOp>>

lockState == <<rwWriter, rwReaders, pc, call, dispatched>>

reqState == <<cfg, ldap, req, hdr, urlPath, rpc, resp, nextCalls, ldapDials,
              upstreamRequests, proxyErrors, latencyObs, roundTrip,
              proxyRequests, errorHandlerSets>>

raceState == <<lbWriter, lbReaders, selPc, selIdx, selRes, pollPc>>

copyState == <<heap, nodePtr, metricsPtr, returned, copyOp>>

\* the components only their own specification moves
loopState == <<mainPc, loopPc, running, ctxDone, wgCount, sweeps>>

sweepState == <<lbServers, pollOf, sweepPc, ticks, errAtStart>>

auxState == <<copyState, loopState, sweepState>>

vars == <<now, lbState, regState, lockState, reqState, raceState, auxState>>

allButNow == <<lbState, regState, lockState, reqState, raceState, auxState>>
nonLB == <<regState, lockState, reqState, raceState, auxState>>
nonRegistry == <<lbState, lockState, reqState, raceState, auxState>>

-----------------------------------------------------------------------------
(* Bounds of the model *)

MaxClock == 2          \* the clock stops ticking here
MaxErrorCount == 4     \* failed polls are not explored beyond this ErrorCount
MaxRoundRobin == 3     \* round-robin selections are not explored beyond this index
MaxSelRun == 5         \* selections explored between two polls
MaxNodeErrors == 5     \* IncrementErrorCount is not explored beyond this ErrorCount
MaxCallbacks == 2      \* listeners registered with OnEvent
NumSelectors == 2      \* goroutines calling SelectServer at the same time
MaxPatterns == 2       \* patterns in a public_paths list given to isPublicPath

-----------------------------------------------------------------------------
(* Load balancer: data *)

\* NewOllamaLoadBalancer / NewVLLMLoadBalancer: maxConsecErrors: 3
maxConsecErrors == 3

\* math.MaxFloat64, the start value of the minimum scan; every weight a
\* backend reports here is below it.
MaxFloat64 == 2147483647

URLs == {"http://server1:11434", "http://server2:11434"}

\* Percentages are fixed-point numbers in quarters of a percent, so that the
\* factor 1.5 stays exact: 45.5% is 182.
Pct(p) == 4 * p

\* Bodies a backend's /metrics endpoint answers with (the decoded JSON).
MetricsBodies ==
    { [cpu_percent |-> Pct(80), ram_percent |-> Pct(70), gpu_count |-> 0,
       gpu_avg_utilization_percent |-> 0, gpu_avg_memory_percent |-> 0],
      [cpu_percent |-> Pct(20), ram_percent |-> Pct(30), gpu_count |-> 0,
       gpu_avg_utilization_percent |-> 0, gpu_avg_memory_percent |-> 0],
      [cpu_percent |-> 0, ram_percent |-> 0, gpu_count |-> 0,
       gpu_avg_utilization_percent |-> 0, gpu_avg_memory_percent |-> 0] }

\* ServerMetrics as the constructors initialise it: URL and Available set,
\* every other field the zero value (LastCheck 0 is the zero time).
NewServerMetrics(url) ==
    [URL |-> url, CPUPercent |-> 0, RAMPercent |-> 0, GPUCount |-> 0,
     GPUAvgUtil |-> 0, GPUAvgMemory |-> 0, Available |-> TRUE,
     LastCheck |-> 0, ErrorCount |-> 0, TotalWeight |-> 0]

\* x * 1.5 in the fixed-point representation (x is a multiple of half a percent)
TimesOneAndHalf(x) == (3 * x) \div 2

\* mutant: the GPU figures count whatever gpu_count says
TotalWeightOf_GPUAlways(data) ==
    data.cpu_percent + data.ram_percent
        + TimesOneAndHalf(data.gpu_avg_utilization_percent)
        + TimesOneAndHalf(data.gpu_avg_memory_percent)

\* checkServer: gpuWeight and TotalWeight
TotalWeightOf(data) ==
    LET gpuWeight == IF data.gpu_count > 0
                     THEN TimesOneAndHalf(data.gpu_avg_utilization_percent)
                          + TimesOneAndHalf(data.gpu_avg_memory_percent)
                     ELSE 0
    IN  data.cpu_percent + data.ram_percent + gpuWeight

\* mutant: the error count survives a successful poll
checkServerUpdate_NoReset(m, serverURL, data, t) ==
    [m EXCEPT ![serverURL] =
        [@ EXCEPT !.CPUPercent = data.cpu_percent,
                  !.RAMPercent = data.ram_percent,
                  !.GPUCount = data.gpu_count,
                  !.GPUAvgUtil = data.gpu_avg_utilization_percent,
                  !.GPUAvgMemory = data.gpu_avg_memory_percent,
                  !.TotalWeight = TotalWeightOf(data),
                  !.Available = TRUE,
                  !.LastCheck = t]]

\* mutant: a successful poll does not set Available
checkServerUpdate_NoReadmit(m, serverURL, data, t) ==
    [m EXCEPT ![serverURL] =
        [@ EXCEPT !.CPUPercent = data.cpu_percent,
                  !.RAMPercent = data.ram_percent,
                  !.GPUCount = data.gpu_count,
                  !.GPUAvgUtil = data.gpu_avg_utilization_percent,
                  !.GPUAvgMemory = data.gpu_avg_memory_percent,
                  !.TotalWeight = TotalWeightOf(data),
                  !.LastCheck = t,
                  !.ErrorCount = 0]]

\* checkServer, the update under lb.mutex after a parsed metrics response
checkServerUpdate(m, serverURL, data, t) ==
    [m EXCEPT ![serverURL] =
        [@ EXCEPT !.CPUPercent = data.cpu_percent,
                  !.RAMPercent = data.ram_percent,
                  !.GPUCount = data.gpu_count,
                  !.GPUAvgUtil = data.gpu_avg_utilization_percent,
                  !.GPUAvgMemory = data.gpu_avg_memory_percent,
                  !.TotalWeight = TotalWeightOf(data),
                  !.Available = TRUE,
                  !.LastCheck = t,
                  !.ErrorCount = 0]]

\* mutant: the fallback also clears the stored figures and the weight
checkServerFallback_ClearsMetrics(m, serverURL, t) ==
    [m EXCEPT ![serverURL] = [NewServerMetrics(serverURL) EXCEPT !.LastCheck = t]]

\* VLLMLoadBalancer.checkServer, the fallback after a 200 from /health when
\* /metrics gave nothing usable: the stored metrics stay
checkServerFallback(m, serverURL, t) ==
    [m EXCEPT ![serverURL] =
        [@ EXCEPT !.Available = TRUE, !.LastCheck = t, !.ErrorCount = 0]]

\* mutant: the threshold compared with > instead of >=
handleServerError_OffByOne(m, serverURL, t) ==
    [m EXCEPT ![serverURL] =
        [@ EXCEPT !.ErrorCount = @ + 1,
                  !.LastCheck = t,
                  !.Available = IF m[serverURL].ErrorCount + 1 > maxConsecErrors
                                THEN FALSE ELSE @]]

\* mutant: a failed poll leaves LastCheck alone
handleServerError_NoStamp(m, serverURL, t) ==
    [m EXCEPT ![serverURL] =
        [@ EXCEPT !.ErrorCount = @ + 1,
                  !.Available = IF m[serverURL].ErrorCount + 1 >= maxConsecErrors
                                THEN FALSE ELSE @]]

\* handleServerError
handleServerError(m, serverURL, t) ==
    [m EXCEPT ![serverURL] =
        [@ EXCEPT !.ErrorCount = @ + 1,
                  !.LastCheck = t,
                  !.Available = IF m[serverURL].ErrorCount + 1 >= maxConsecErrors
                                THEN FALSE ELSE @]]

-----------------------------------------------------------------------------
(* Load balancer: SelectServer *)

\* The orders in which a Go map range can visit the keys in S
RECURSIVE Orders(_)
Orders(S) ==
    IF S = {} THEN {<<>>}
    ELSE UNION { { <<x>> \o o : o \in Orders(S \ {x}) } : x \in S }

\* mutant: no entry ever counts as probed, every selection is round-robin
HasValidMetrics_Never(v, m) == FALSE

\* mutant: the vLLM variant accepts a stamped entry of weight 0 as well
HasValidMetrics_IgnoresWeight(v, m) ==
    m.LastCheck # 0

\* "!m.LastCheck.IsZero()", and for the vLLM variant "&& m.TotalWeight > 0"
HasValidMetrics(v, m) ==
    m.LastCheck # 0 /\ (v = "vllm" => m.TotalWeight > 0)

\* mutant: the scan keeps the first probed entry instead of the lightest
RECURSIVE MinScan_First(_, _, _, _, _)
MinScan_First(v, availableServers, i, minWeight, selectedServer) ==
    IF i > Len(availableServers) THEN selectedServer
    ELSE LET m == availableServers[i]
         IN  IF HasValidMetrics(v, m) /\ selectedServer = ""
             THEN MinScan_First(v, availableServers, i + 1, m.TotalWeight, m.URL)
             ELSE MinScan_First(v, availableServers, i + 1, minWeight, selectedServer)

\* The minimum scan over availableServers, from position i on
RECURSIVE MinScan(_, _, _, _, _)
MinScan(v, availableServers, i, minWeight, selectedServer) ==
    IF i > Len(availableServers) THEN selectedServer
    ELSE LET m == availableServers[i]
         IN  IF HasValidMetrics(v, m) /\ m.TotalWeight < minWeight
             THEN MinScan(v, availableServers, i + 1, m.TotalWeight, m.URL)
             ELSE MinScan(v, availableServers, i + 1, minWeight, selectedServer)

\* mutant: every entry is collected, available or not
AvailableKeys_All(m) == DOMAIN m

\* the keys whose entry SelectServer collects into availableServers
AvailableKeys(m) == { k \in DOMAIN m : m[k].Available }

\* SelectServer with the map visited in the order `order` (a sequence of the
\* collected keys). The result: the URL returned, whether an error is
\* returned instead, the branch taken and the new roundRobinIndex.
SelectServerIn(v, m, rr, order) ==
    LET availableServers == [i \in 1..Len(order) |-> m[order[i]]]
        hasMetrics == \E i \in 1..Len(order) : HasValidMetrics(v, availableServers[i])
        selectedServer == IF hasMetrics
                          THEN MinScan(v, availableServers, 1, MaxFloat64, "")
                          ELSE ""
    IN  IF Len(availableServers) = 0
        THEN [url |-> "", err |-> TRUE, branch |-> "none", rr |-> rr]
        ELSE IF selectedServer # ""
        THEN [url |-> selectedServer, err |-> FALSE, branch |-> "weighted", rr |-> rr]
        ELSE [url |-> availableServers[(rr % Len(availableServers)) + 1].URL,
              err |-> FALSE, branch |-> "roundrobin", rr |-> rr + 1]

-----------------------------------------------------------------------------
(* Load balancer: actions *)

NoOp == [op |-> "none", url |-> "", err |-> FALSE, branch |-> "none"]

\* NewOllamaLoadBalancer / NewVLLMLoadBalancer
InitLB ==
    /\ variant \in {"ollama", "vllm"}
    /\ servers \in SUBSET URLs
    /\ metrics = [s \in servers |-> NewServerMetrics(s)]
    /\ roundRobinIndex = 0
    /\ now = 1
    /\ inflight = {}
    /\ lbOp = NoOp
    /\ failStreak = [s \in servers |-> 0]
    /\ readmitted = {}
    /\ selRun = 0

\* time passes
Tick ==
    /\ now < MaxClock
    /\ now' = now + 1
    /\ UNCHANGED allButNow

\* checkAllServers: one goroutine per configured URL; the next sweep starts
\* only after wg.Wait() has seen them all finish
checkAllServers ==
    /\ inflight = {}
    /\ servers # {}
    /\ inflight' = servers
    /\ UNCHANGED <<variant, servers, metrics, roundRobinIndex, now, lbOp,
                   failStreak, readmitted, selRun>>
    /\ UNCHANGED nonLB

\* checkServer, the metrics request answered 200 with a body that parses
CheckServerSuccess(serverURL, data) ==
    /\ serverURL \in inflight
    /\ metrics' = checkServerUpdate(metrics, serverURL, data, now)
    /\ inflight' = inflight \ {serverURL}
    /\ lbOp' = [op |-> "success", url |-> serverURL, err |-> FALSE, branch |-> "none"]
    /\ failStreak' = [failStreak EXCEPT ![serverURL] = 0]
    /\ readmitted' = IF metrics[serverURL].Available
                     THEN readmitted \ {serverURL}
                     ELSE readmitted \cup {serverURL}
    /\ selRun' = 0
    /\ UNCHANGED <<variant, servers, roundRobinIndex, now>>
    /\ UNCHANGED nonLB

\* VLLMLoadBalancer.checkServer, /health answered 200 and /metrics failed,
\* answered another status or did not parse
CheckServerHealthOnly(serverURL) ==
    /\ variant = "vllm"
    /\ serverURL \in inflight
    /\ metrics' = checkServerFallback(metrics, serverURL, now)
    /\ inflight' = inflight \ {serverURL}
    /\ lbOp' = [op |-> "healthonly", url |-> serverURL, err |-> FALSE, branch |-> "none"]
    /\ failStreak' = [failStreak EXCEPT ![serverURL] = 0]
    /\ readmitted' = IF metrics[serverURL].Available
                     THEN readmitted \ {serverURL}
                     ELSE readmitted \cup {serverURL}
    /\ selRun' = 0
    /\ UNCHANGED <<variant, servers, roundRobinIndex, now>>
    /\ UNCHANGED nonLB

\* checkServer, the request failed: transport error, a status other than
\* 200, or (Ollama variant) a body that does not parse
CheckServerFailure(serverURL) ==
    /\ serverURL \in inflight
    /\ metrics[serverURL].ErrorCount < MaxErrorCount
    /\ metrics' = handleServerError(metrics, serverURL, now)
    /\ inflight' = inflight \ {serverURL}
    /\ lbOp' = [op |-> "failure", url |-> serverURL, err |-> FALSE, branch |-> "none"]
    /\ failStreak' = [failStreak EXCEPT ![serverURL] = @ + 1]
    /\ readmitted' = readmitted \ {serverURL}
    /\ selRun' = 0
    /\ UNCHANGED <<variant, servers, roundRobinIndex, now>>
    /\ UNCHANGED nonLB

\* SelectServer, called by a request handler
SelectServer ==
    /\ selRun < MaxSelRun
    /\ \E order \in Orders(AvailableKeys(metrics)) :
          LET r == SelectServerIn(variant, metrics, roundRobinIndex, order)
          IN  /\ r.rr <= MaxRoundRobin
              /\ roundRobinIndex' = r.rr
              /\ lbOp' = [op |-> "select", url |-> r.url, err |-> r.err,
                          branch |-> r.branch]
    /\ selRun' = selRun + 1
    /\ UNCHANGED <<variant, servers, metrics, now, inflight, failStreak, readmitted>>
    /\ UNCHANGED nonLB

NextLB ==
    \/ Tick
    \/ checkAllServers
    \/ \E s \in URLs, d \in MetricsBodies : CheckServerSuccess(s, d)
    \/ \E s \in URLs : CheckServerHealthOnly(s)
    \/ \E s \in URLs : CheckServerFailure(s)
    \/ SelectServer

-----------------------------------------------------------------------------
(* Load balancer: SelectServer and the poll workers under lb.mutex *)

\* the goroutines calling SelectServer at the same time
Selectors == 1..NumSelectors

NoSel == [url |-> "", err |-> FALSE, branch |-> "none"]

NoPoll == [pc |-> "idle", url |-> "", data |-> CHOOSE d \in MetricsBodies : TRUE]

\* no goroutine is inside the balancer
IdleRace ==
    /\ lbWriter = "none"
    /\ lbReaders = {}
    /\ selPc = [g \in Selectors |-> "idle"]
    /\ selIdx = [g \in Selectors |-> 0]
    /\ selRes = [g \in Selectors |-> NoSel]
    /\ pollPc = NoPoll

\* both backends configured, one sweep's workers started, NumSelectors
\* requests about to call SelectServer
InitRace ==
    /\ variant \in {"ollama", "vllm"}
    /\ servers = URLs
    /\ metrics = [s \in servers |-> NewServerMetrics(s)]
    /\ roundRobinIndex = 0
    /\ now = 1
    /\ inflight = servers
    /\ lbOp = NoOp
    /\ failStreak = [s \in servers |-> 0]
    /\ readmitted = {}
    /\ selRun = 0
    /\ IdleRace

\* "lb.mutex.RLock()" in SelectServer: waits while a writer holds the mutex
SelectRLock(g) ==
    /\ selPc[g] = "idle"
    /\ lbWriter = "none"
    /\ lbReaders' = lbReaders \cup {g}
    /\ selPc' = [selPc EXCEPT ![g] = "RLocked"]
    /\ UNCHANGED <<lbWriter, selIdx, selRes, pollPc>>
    /\ UNCHANGED <<now, auxState, lbState, regState, lockState, reqState>>

\* SelectServer from the collection of availableServers to the choice of
\* "selected"; the round-robin branch has read roundRobinIndex for the
\* modulo and still has "lb.roundRobinIndex++" to do
SelectScan(g) ==
    /\ selPc[g] = "RLocked"
    /\ \E order \in Orders(AvailableKeys(metrics)) :
          LET r == SelectServerIn(variant, metrics, roundRobinIndex, order)
          IN  /\ selRes' = [selRes EXCEPT ![g] =
                               [url |-> r.url, err |-> r.err, branch |-> r.branch]]
              /\ selPc' = [selPc EXCEPT ![g] =
                              IF r.branch = "roundrobin" THEN "load" ELSE "RUnlock"]
    /\ UNCHANGED <<lbWriter, lbReaders, selIdx, pollPc>>
    /\ UNCHANGED <<now, auxState, lbState, regState, lockState, reqState>>

\* "lb.roundRobinIndex++", the read
SelectIncLoad(g) ==
    /\ selPc[g] = "load"
    /\ selIdx' = [selIdx EXCEPT ![g] = roundRobinIndex]
    /\ selPc' = [selPc EXCEPT ![g] = "store"]
    /\ UNCHANGED <<lbWriter, lbReaders, selRes, pollPc>>
    /\ UNCHANGED <<now, auxState, lbState, regState, lockState, reqState>>

\* "lb.roundRobinIndex++", the write
SelectIncStore(g) ==
    /\ selPc[g] = "store"
    /\ roundRobinIndex' = selIdx[g] + 1
    /\ selPc' = [selPc EXCEPT ![g] = "RUnlock"]
    /\ UNCHANGED <<lbWriter, lbReaders, selIdx, selRes, pollPc>>
    /\ UNCHANGED <<variant, servers, metrics, inflight, lbOp, failStreak,
                   readmitted, selRun>>
    /\ UNCHANGED <<now, auxState, regState, lockState, reqState>>

\* the deferred "lb.mutex.RUnlock()": SelectServer returns
SelectRUnlock(g) ==
    /\ selPc[g] = "RUnlock"
    /\ lbReaders' = lbReaders \ {g}
    /\ selPc' = [selPc EXCEPT ![g] = "done"]
    /\ lbOp' = [op |-> "select", url |-> selRes[g].url, err |-> selRes[g].err,
                branch |-> selRes[g].branch]
    /\ selRun' = selRun + 1
    /\ UNCHANGED <<lbWriter, selIdx, selRes, pollPc>>
    /\ UNCHANGED <<variant, servers, metrics, roundRobinIndex, inflight,
                   failStreak, readmitted>>
    /\ UNCHANGED <<now, auxState, regState, lockState, reqState>>

\* checkServer of serverURL got data: "lb.mutex.Lock()", which waits for the
\* readers and the writer to leave
PollLock(serverURL, data) ==
    /\ serverURL \in inflight
    /\ pollPc.pc = "idle"
    /\ lbWriter = "none"
    /\ lbReaders = {}
    /\ lbWriter' = serverURL
    /\ pollPc' = [pc |-> "Locked", url |-> serverURL, data |-> data]
    /\ UNCHANGED <<lbReaders, selPc, selIdx, selRes>>
    /\ UNCHANGED <<now, auxState, lbState, regState, lockState, reqState>>

\* checkServer's update, its first assignments: the figures and TotalWeight
PollWriteFigures ==
    /\ pollPc.pc = "Locked"
    /\ metrics' = [metrics EXCEPT ![pollPc.url] =
                      [@ EXCEPT !.CPUPercent = pollPc.data.cpu_percent,
                                !.RAMPercent = pollPc.data.ram_percent,
                                !.GPUCount = pollPc.data.gpu_count,
                                !.GPUAvgUtil = pollPc.data.gpu_avg_utilization_percent,
                                !.GPUAvgMemory = pollPc.data.gpu_avg_memory_percent,
                                !.TotalWeight = TotalWeightOf(pollPc.data)]]
    /\ pollPc' = [pollPc EXCEPT !.pc = "half"]
    /\ UNCHANGED <<lbWriter, lbReaders, selPc, selIdx, selRes>>
    /\ UNCHANGED <<variant, servers, roundRobinIndex, inflight, lbOp, failStreak,
                   readmitted, selRun>>
    /\ UNCHANGED <<now, auxState, regState, lockState, reqState>>

\* checkServer's update, the rest (Available, LastCheck, ErrorCount), and the
\* deferred "lb.mutex.Unlock()"
PollFinish ==
    /\ pollPc.pc = "half"
    /\ metrics' = checkServerUpdate(metrics, pollPc.url, pollPc.data, now)
    /\ inflight' = inflight \ {pollPc.url}
    /\ lbOp' = [op |-> "success", url |-> pollPc.url, err |-> FALSE, branch |-> "none"]
    /\ lbWriter' = "none"
    /\ pollPc' = NoPoll
    /\ UNCHANGED <<lbReaders, selPc, selIdx, selRes>>
    /\ UNCHANGED <<variant, servers, roundRobinIndex, failStreak, readmitted, selRun>>
    /\ UNCHANGED <<now, auxState, regState, lockState, reqState>>

NextRace ==
    \/ \E g \in Selectors : SelectRLock(g)
    \/ \E g \in Selectors : SelectScan(g)
    \/ \E g \in Selectors : SelectIncLoad(g)
    \/ \E g \in Selectors : SelectIncStore(g)
    \/ \E g \in Selectors : SelectRUnlock(g)
    \/ \E s \in URLs, d \in MetricsBodies : PollLock(s, d)
    \/ PollWriteFigures
    \/ PollFinish

-----------------------------------------------------------------------------
(* Node registry: data and operations *)

NodeStatusHealthy == "healthy"
NodeStatusUnreachable == "unreachable"
NodeStatusUnknown == "unknown"

EventNodeDiscovered == "NodeDiscovered"
EventNodeLost == "NodeLost"
EventHealthOK == "HealthOK"
EventHealthFail == "HealthFail"

\* HealthCheckerConfig.MaxErrors as main.go and DefaultHealthCheckerConfig set it
MaxErrors == 3

Hosts == {"192.168.1.100", "192.168.1.101"}
Port == 11434

\* nodeKey: fmt.Sprintf("%s:%d", host, port)
nodeKey(host, port) == host \o ":" \o ToString(port)

\* nodeKeyFromNode
nodeKeyFromNode(n) == nodeKey(n.Host, n.Port)

\* The Node values callers hand to AddNode: discovery builds them with
\* Status unknown, tests also with healthy, unreachable or no Status; none
\* sets ErrorCount or LastSeen.
InputNodes ==
    { [Name |-> "test-node", Type |-> "ollama", Host |-> h, Port |-> Port,
       Status |-> st, LastSeen |-> 0, ErrorCount |-> 0] :
          h \in Hosts,
          st \in {"", NodeStatusUnknown, NodeStatusHealthy, NodeStatusUnreachable} }

Statuses == {NodeStatusHealthy, NodeStatusUnreachable, NodeStatusUnknown}

\* r.nodes[key] = node
MapSet(ns, key, node) ==
    [k \in (DOMAIN ns) \cup {key} |-> IF k = key THEN node ELSE ns[k]]

\* delete(r.nodes, key)
MapDelete(ns, key) == [k \in (DOMAIN ns) \ {key} |-> ns[k]]

\* Each operation below is the body its method runs between Lock and Unlock.
\* It gives the new map, the events handed to r.emit, in order, and the
\* value returned.

\* mutant: re-adding a registered key keeps what the health checker recorded
AddNodeBody_KeepsHealth(ns, node, t) ==
    LET key == nodeKeyFromNode(node)
        exists == key \in DOMAIN ns
        stored == [node EXCEPT !.LastSeen = t,
                               !.Status = IF exists THEN ns[key].Status
                                          ELSE IF node.Status = ""
                                          THEN NodeStatusUnknown ELSE @,
                               !.ErrorCount = IF exists THEN ns[key].ErrorCount
                                              ELSE @]
    IN  [nodes |-> MapSet(ns, key, stored),
         emitted |-> IF ~exists THEN <<EventNodeDiscovered>> ELSE <<>>,
         ret |-> FALSE]

\* AddNode
AddNodeBody(ns, node, t) ==
    LET key == nodeKeyFromNode(node)
        exists == key \in DOMAIN ns
        stored == [node EXCEPT !.LastSeen = t,
                               !.Status = IF node.Status = ""
                                          THEN NodeStatusUnknown ELSE @]
    IN  [nodes |-> MapSet(ns, key, stored),
         emitted |-> IF ~exists THEN <<EventNodeDiscovered>> ELSE <<>>,
         ret |-> FALSE]

\* RemoveNode
RemoveNodeBody(ns, host, port) ==
    LET key == nodeKey(host, port)
    IN  IF key \in DOMAIN ns
        THEN [nodes |-> MapDelete(ns, key), emitted |-> <<EventNodeLost>>, ret |-> FALSE]
        ELSE [nodes |-> ns, emitted |-> <<>>, ret |-> FALSE]

\* mutant: the error count is not reset on the way back to healthy
UpdateNodeStatusBody_NoReset(ns, host, port, status, t) ==
    LET key == nodeKey(host, port)
    IN  IF key \in DOMAIN ns
        THEN LET oldStatus == ns[key].Status
                 node == [ns[key] EXCEPT !.Status = status, !.LastSeen = t]
             IN  IF status = NodeStatusHealthy /\ oldStatus # NodeStatusHealthy
                 THEN [nodes |-> MapSet(ns, key, node),
                       emitted |-> <<EventHealthOK>>, ret |-> FALSE]
                 ELSE IF status = NodeStatusUnreachable /\ oldStatus = NodeStatusHealthy
                 THEN [nodes |-> MapSet(ns, key, node),
                       emitted |-> <<EventHealthFail>>, ret |-> FALSE]
                 ELSE [nodes |-> MapSet(ns, key, node), emitted |-> <<>>, ret |-> FALSE]
        ELSE [nodes |-> ns, emitted |-> <<>>, ret |-> FALSE]

\* mutant: a status reported for an unregistered key registers a node
UpdateNodeStatusBody_Creates(ns, host, port, status, t) ==
    LET key == nodeKey(host, port)
    IN  IF key \in DOMAIN ns
        THEN LET oldStatus == ns[key].Status
                 node == [ns[key] EXCEPT !.Status = status, !.LastSeen = t]
             IN  IF status = NodeStatusHealthy /\ oldStatus # NodeStatusHealthy
                 THEN [nodes |-> MapSet(ns, key,
                         [node EXCEPT !.ErrorCount = 0]),
                       emitted |-> <<EventHealthOK>>, ret |-> FALSE]
                 ELSE IF status = NodeStatusUnreachable /\ oldStatus = NodeStatusHealthy
                 THEN [nodes |-> MapSet(ns, key, node),
                       emitted |-> <<EventHealthFail>>, ret |-> FALSE]
                 ELSE [nodes |-> MapSet(ns, key, node), emitted |-> <<>>,
                         ret |-> FALSE]
        ELSE [nodes |-> MapSet(ns, key,
                            [Name |-> "", Type |-> "", Host |-> host,
                             Port |-> port, Status |-> status, LastSeen |-> t,
                             ErrorCount |-> 0]),
              emitted |-> <<>>, ret |-> FALSE]

\* UpdateNodeStatus
UpdateNodeStatusBody(ns, host, port, status, t) ==
    LET key == nodeKey(host, port)
    IN  IF key \in DOMAIN ns
        THEN LET oldStatus == ns[key].Status
                 node == [ns[key] EXCEPT !.Status = status, !.LastSeen = t]
             IN  IF status = NodeStatusHealthy /\ oldStatus # NodeStatusHealthy
                 THEN [nodes |-> MapSet(ns, key, [node EXCEPT !.ErrorCount = 0]),
                       emitted |-> <<EventHealthOK>>, ret |-> FALSE]
                 ELSE IF status = NodeStatusUnreachable /\ oldStatus = NodeStatusHealthy
                 THEN [nodes |-> MapSet(ns, key, node),
                       emitted |-> <<EventHealthFail>>, ret |-> FALSE]
                 ELSE [nodes |-> MapSet(ns, key, node), emitted |-> <<>>, ret |-> FALSE]
        ELSE [nodes |-> ns, emitted |-> <<>>, ret |-> FALSE]

\* mutant: the threshold compared with > instead of >=
IncrementErrorCountBody_OffByOne(ns, host, port, maxErrors) ==
    LET key == nodeKey(host, port)
    IN  IF key \in DOMAIN ns
        THEN LET node == [ns[key] EXCEPT !.ErrorCount = @ + 1]
             IN  IF node.ErrorCount > maxErrors
                 THEN [nodes |-> MapSet(ns, key,
                                        [node EXCEPT !.Status = NodeStatusUnreachable]),
                       emitted |-> <<EventHealthFail>>, ret |-> TRUE]
                 ELSE [nodes |-> MapSet(ns, key, node), emitted |-> <<>>,
                         ret |-> FALSE]
        ELSE [nodes |-> ns, emitted |-> <<>>, ret |-> FALSE]

\* IncrementErrorCount
IncrementErrorCountBody(ns, host, port, maxErrors) ==
    LET key == nodeKey(host, port)
    IN  IF key \in DOMAIN ns
        THEN LET node == [ns[key] EXCEPT !.ErrorCount = @ + 1]
             IN  IF node.ErrorCount >= maxErrors
                 THEN [nodes |-> MapSet(ns, key, [node EXCEPT !.Status = NodeStatusUnreachable]),
                       emitted |-> <<EventHealthFail>>, ret |-> TRUE]
                 ELSE [nodes |-> MapSet(ns, key, node), emitted |-> <<>>, ret |-> FALSE]
        ELSE [nodes |-> ns, emitted |-> <<>>, ret |-> FALSE]

-----------------------------------------------------------------------------
(* Node registry: one call at a time.  Each action is what one call does    *)
(* to the map and which events it hands to emit; the locking around it is   *)
(* the subject of the goroutine-level actions further down.                 *)

NoRegOp == [op |-> "none", key |-> "", existed |-> FALSE, oldStatus |-> "",
            oldErrorCount |-> 0, status |-> "", emitted |-> <<>>, ret |-> FALSE]

\* what a call on `key` finds before it changes anything
Found(op, key, status) ==
    [op |-> op, key |-> key, existed |-> key \in DOMAIN nodes,
     oldStatus |-> IF key \in DOMAIN nodes THEN nodes[key].Status ELSE "",
     oldErrorCount |-> IF key \in DOMAIN nodes THEN nodes[key].ErrorCount ELSE 0,
     status |-> status, emitted |-> <<>>, ret |-> FALSE]

\* NewRegistry
InitRegistry ==
    /\ nodes = <<>>
    /\ callbacks = 0
    /\ regOp = NoRegOp

Record(found, r) == [found EXCEPT !.emitted = r.emitted, !.ret = r.ret]

AddNode(node) ==
    LET r == AddNodeBody(nodes, node, now)
    IN  /\ nodes' = r.nodes
        /\ regOp' = Record(Found("AddNode", nodeKeyFromNode(node), node.Status), r)
        /\ UNCHANGED <<now, callbacks, nonRegistry>>

RemoveNode(host, port) ==
    LET r == RemoveNodeBody(nodes, host, port)
    IN  /\ nodes' = r.nodes
        /\ regOp' = Record(Found("RemoveNode", nodeKey(host, port), ""), r)
        /\ UNCHANGED <<now, callbacks, nonRegistry>>

UpdateNodeStatus(host, port, status) ==
    LET r == UpdateNodeStatusBody(nodes, host, port, status, now)
    IN  /\ nodes' = r.nodes
        /\ regOp' = Record(Found("UpdateNodeStatus", nodeKey(host, port), status), r)
        /\ UNCHANGED <<now, callbacks, nonRegistry>>

IncrementErrorCount(host, port, maxErrors) ==
    LET key == nodeKey(host, port)
        r == IncrementErrorCountBody(nodes, host, port, maxErrors)
    IN  /\ key \in DOMAIN nodes => nodes[key].ErrorCount < MaxNodeErrors
        /\ nodes' = r.nodes
        /\ regOp' = Record(Found("IncrementErrorCount", key, ""), r)
        /\ UNCHANGED <<now, callbacks, nonRegistry>>

NextRegistry ==
    \/ Tick
    \/ \E n \in InputNodes : AddNode(n)
    \/ \E h \in Hosts : RemoveNode(h, Port)
    \/ \E h \in Hosts, st \in Statuses : UpdateNodeStatus(h, Port, st)
    \/ \E h \in Hosts : IncrementErrorCount(h, Port, MaxErrors)

-----------------------------------------------------------------------------
(* Node registry: the calls step by step, under r.mutex (a sync.RWMutex).   *)
(* Lock waits until no goroutine holds the mutex for writing, then keeps    *)
(* new readers out and waits for the read locks held to be released.        *)
(* RLock waits while a goroutine holds or is acquiring the write lock; the  *)
(* mutex is not reentrant, the goroutine's own write lock included.         *)

Goroutines == {"g1", "g2"}

NoNode == [Name |-> "", Type |-> "", Host |-> "", Port |-> 0,
           Status |-> "", LastSeen |-> 0, ErrorCount |-> 0]

NoCall == [op |-> "none", node |-> NoNode, host |-> "", status |-> "", inEmit |-> FALSE]

\* the calls that start with r.mutex.Lock()
WriteCalls ==
    { [op |-> "AddNode", node |-> n, host |-> n.Host, status |-> n.Status,
       inEmit |-> FALSE] : n \in InputNodes }
    \cup { [op |-> o, node |-> NoNode, host |-> h, status |-> "", inEmit |-> FALSE] :
              o \in {"RemoveNode", "IncrementErrorCount"}, h \in Hosts }
    \cup { [op |-> "UpdateNodeStatus", node |-> NoNode, host |-> h, status |-> st,
            inEmit |-> FALSE] : h \in Hosts, st \in Statuses }
    \cup { [op |-> "OnEvent", node |-> NoNode, host |-> "", status |-> "",
            inEmit |-> FALSE] }

\* the calls that start with r.mutex.RLock()
ReadCalls ==
    { [op |-> o, node |-> NoNode, host |-> "", status |-> "", inEmit |-> FALSE] :
         o \in {"GetAllNodes", "Count"} }

InitLock ==
    /\ rwWriter = "none"
    /\ rwReaders = 0
    /\ pc = [g \in Goroutines |-> "idle"]
    /\ call = [g \in Goroutines |-> NoCall]
    /\ dispatched = 0

\* A goroutine calls a registry method: a background loop or a request
\* handler, or a callback goroutine that emit started (callback(event) with a
\* callback that calls back into the registry).
Call(g, c) ==
    /\ pc[g] = "idle"
    /\ c.op = "OnEvent" => callbacks < MaxCallbacks
    /\ (c.op = "IncrementErrorCount" /\ nodeKey(c.host, Port) \in DOMAIN nodes)
          => nodes[nodeKey(c.host, Port)].ErrorCount < MaxNodeErrors
    /\ \E asCallback \in BOOLEAN :
          /\ asCallback => dispatched > 0
          /\ dispatched' = IF asCallback THEN dispatched - 1 ELSE dispatched
    /\ call' = [call EXCEPT ![g] = c]
    /\ pc' = [pc EXCEPT ![g] = IF c \in ReadCalls THEN "RLock" ELSE "Lock"]
    /\ UNCHANGED <<now, auxState, reqState, raceState, lbState, regState, rwWriter, rwReaders>>

\* r.mutex.Lock(), first half: become the writer once no other goroutine is
MutexLock(g) ==
    /\ pc[g] = "Lock"
    /\ rwWriter = "none"
    /\ rwWriter' = g
    /\ pc' = [pc EXCEPT ![g] = "LockWait"]
    /\ UNCHANGED <<now, auxState, reqState, raceState, lbState, regState, rwReaders, call, dispatched>>

\* r.mutex.Lock(), second half: wait for the readers to leave
MutexLockWait(g) ==
    /\ pc[g] = "LockWait"
    /\ rwReaders = 0
    /\ pc' = [pc EXCEPT ![g] = "Body"]
    /\ UNCHANGED <<now, auxState, reqState, raceState, lbState, regState, rwWriter, rwReaders, call, dispatched>>

\* the method's body up to its call of r.emit (if any), write lock held
Body(g) ==
    /\ pc[g] = "Body"
    /\ LET c == call[g]
           r == IF c.op = "AddNode" THEN AddNodeBody(nodes, c.node, now)
                ELSE IF c.op = "RemoveNode" THEN RemoveNodeBody(nodes, c.host, Port)
                ELSE IF c.op = "UpdateNodeStatus"
                     THEN UpdateNodeStatusBody(nodes, c.host, Port, c.status, now)
                ELSE IF c.op = "IncrementErrorCount"
                     THEN IncrementErrorCountBody(nodes, c.host, Port, MaxErrors)
                ELSE [nodes |-> nodes, emitted |-> <<>>, ret |-> FALSE]
       IN  /\ nodes' = r.nodes
           /\ callbacks' = IF c.op = "OnEvent" THEN callbacks + 1 ELSE callbacks
           /\ regOp' = Record(Found(c.op, nodeKey(c.host, Port), c.status), r)
           /\ call' = [call EXCEPT ![g].inEmit = r.emitted # <<>>]
           /\ pc' = [pc EXCEPT ![g] = IF r.emitted # <<>> THEN "RLock" ELSE "Unlock"]
    /\ UNCHANGED <<now, auxState, reqState, raceState, lbState, rwWriter, rwReaders, dispatched>>

\* r.mutex.RLock(), in emit and in the query methods
MutexRLock(g) ==
    /\ pc[g] = "RLock"
    /\ rwWriter = "none"
    /\ rwReaders' = rwReaders + 1
    /\ pc' = [pc EXCEPT ![g] = "RLocked"]
    /\ UNCHANGED <<now, auxState, reqState, raceState, lbState, regState, rwWriter, call, dispatched>>

\* r.mutex.RUnlock(). In emit the callbacks have been copied, and after the
\* unlock one goroutine per callback is started and emit returns to the
\* method, which has its deferred Unlock left; a query method returns.
MutexRUnlock(g) ==
    /\ pc[g] = "RLocked"
    /\ rwReaders' = rwReaders - 1
    /\ dispatched' = IF call[g].inEmit THEN dispatched + callbacks ELSE dispatched
    /\ pc' = [pc EXCEPT ![g] = IF call[g].inEmit THEN "Unlock" ELSE "idle"]
    /\ call' = [call EXCEPT ![g] = IF call[g].inEmit THEN @ ELSE NoCall]
    /\ UNCHANGED <<now, auxState, reqState, raceState, lbState, regState, rwWriter>>

\* the deferred r.mutex.Unlock(); the method returns
MutexUnlock(g) ==
    /\ pc[g] = "Unlock"
    /\ rwWriter' = "none"
    /\ pc' = [pc EXCEPT ![g] = "idle"]
    /\ call' = [call EXCEPT ![g] = NoCall]
    /\ UNCHANGED <<now, auxState, reqState, raceState, lbState, regState, rwReaders, dispatched>>

\* the step goroutine g can take inside the call it is executing
GoroutineStep(g) ==
    \/ MutexLock(g)
    \/ MutexLockWait(g)
    \/ Body(g)
    \/ MutexRLock(g)
    \/ MutexRUnlock(g)
    \/ MutexUnlock(g)

NextRegLock ==
    \/ \E g \in Goroutines, c \in WriteCalls \cup ReadCalls : Call(g, c)
    \/ \E g \in Goroutines : MutexLock(g)
    \/ \E g \in Goroutines : MutexLockWait(g)
    \/ \E g \in Goroutines : Body(g)
    \/ \E g \in Goroutines : MutexRLock(g)
    \/ \E g \in Goroutines : MutexRUnlock(g)
    \/ \E g \in Goroutines : MutexUnlock(g)

-----------------------------------------------------------------------------
(* Requests: strings *)

\* A Go string is a sequence of one-character strings, so that prefixes,
\* trimming, splitting and base64 are computed and not assumed.

\* strings.HasPrefix
HasPrefix(s, prefix) ==
    Len(s) >= Len(prefix) /\ SubSeq(s, 1, Len(prefix)) = prefix

\* strings.HasSuffix
HasSuffix(s, suffix) ==
    Len(s) >= Len(suffix) /\ SubSeq(s, Len(s) - Len(suffix) + 1,
            Len(s)) = suffix

\* strings.TrimPrefix
TrimPrefix(s, prefix) ==
    IF HasPrefix(s, prefix) THEN SubSeq(s, Len(prefix) + 1, Len(s)) ELSE s

\* strings.TrimSuffix
TrimSuffix(s, suffix) ==
    IF HasSuffix(s, suffix) THEN SubSeq(s, 1, Len(s) - Len(suffix)) ELSE s

\* strings.Contains
Contains(s, substr) ==
    \E i \in 0..(Len(s) - Len(substr)) : SubSeq(s, i + 1,
            i + Len(substr)) = substr

UpperLetters == <<"A", "B", "C", "D", "E", "F", "G", "H", "I", "J", "K", "L",
        "M", "N", "O", "P", "Q", "R", "S", "T", "U", "V", "W", "X", "Y", "Z">>

LowerLetters == <<"a", "b", "c", "d", "e", "f", "g", "h", "i", "j", "k", "l",
        "m", "n", "o", "p", "q", "r", "s", "t", "u", "v", "w", "x", "y", "z">>

\* strings.ToLower (ASCII)
ToLower(s) ==
    [i \in 1..Len(s) |->
        IF \E k \in 1..Len(UpperLetters) : UpperLetters[k] = s[i]
        THEN LowerLetters[CHOOSE k \in 1..Len(UpperLetters) : UpperLetters[k] = s[i]]
        ELSE s[i]]

\* strings.SplitN(s, sep, 2) for a separator of one character: the text
\* before the first separator and the text after it, or s alone
SplitN(s, sep) ==
    IF \E i \in 1..Len(s) : s[i] = sep
    THEN LET i == CHOOSE k \in 1..Len(s) :
                      s[k] = sep /\ \A j \in 1..(k - 1) : s[j] # sep
         IN  <<SubSeq(s, 1, i - 1), SubSeq(s, i + 1, Len(s))>>
    ELSE <<s>>

\* the alphabet of base64.StdEncoding
encodeStd == <<"A", "B", "C", "D", "E", "F", "G", "H", "I", "J", "K", "L",
        "M", "N", "O", "P", "Q", "R", "S", "T", "U", "V", "W", "X", "Y", "Z",
        "a", "b", "c", "d", "e", "f", "g", "h", "i", "j", "k", "l", "m", "n",
        "o", "p", "q", "r", "s", "t", "u", "v", "w", "x", "y", "z", "0", "1",
        "2", "3", "4", "5", "6", "7", "8", "9", "+", "/">>

\* the 6-bit value of the character c, -1 when c is not in the alphabet
decodeMap(c) ==
    IF \E i \in 1..Len(encodeStd) : encodeStd[i] = c
    THEN (CHOOSE i \in 1..Len(encodeStd) : encodeStd[i] = c) - 1
    ELSE -1

\* One quantum of four characters. Padding ("xx==" or "xxx=") is accepted in
\* the last quantum only; the bits left over after the last byte are dropped.
decodeQuantum(q, last) ==
    LET v == [i \in 1..4 |-> decodeMap(q[i])]
        b1 == 4 * v[1] + (v[2] \div 16)
        b2 == 16 * (v[2] % 16) + (v[3] \div 4)
        b3 == 64 * (v[3] % 4) + v[4]
    IN  IF v[1] >= 0 /\ v[2] >= 0 /\ v[3] >= 0 /\ v[4] >= 0
        THEN [err |-> FALSE, bytes |-> <<b1, b2, b3>>]
        ELSE IF last /\ v[1] >= 0 /\ v[2] >= 0 /\ v[3] >= 0 /\ q[4] = "="
        THEN [err |-> FALSE, bytes |-> <<b1, b2>>]
        ELSE IF last /\ v[1] >= 0 /\ v[2] >= 0 /\ q[3] = "=" /\ q[4] = "="
        THEN [err |-> FALSE, bytes |-> <<b1>>]
        ELSE [err |-> TRUE, bytes |-> <<>>]

\* base64.StdEncoding.DecodeString for input without line breaks
RECURSIVE DecodeString(_)
DecodeString(s) ==
    IF Len(s) = 0 THEN [err |-> FALSE, bytes |-> <<>>]
    ELSE IF Len(s) < 4 THEN [err |-> TRUE, bytes |-> <<>>]
    ELSE LET q == decodeQuantum(SubSeq(s, 1, 4), Len(s) = 4)
             rest == DecodeString(SubSeq(s, 5, Len(s)))
         IN  IF q.err \/ rest.err
             THEN [err |-> TRUE, bytes |-> <<>>]
             ELSE [err |-> FALSE, bytes |-> q.bytes \o rest.bytes]

\* the printable ASCII characters, from code 32 on (code 96 is written \x96)
Printable == <<" ", "!", "\"", "#", "$", "%", "&", "'", "(", ")", "*", "+",
        ",", "-", ".", "/", "0", "1", "2", "3", "4", "5", "6", "7", "8", "9",
        ":", ";", "<", "=", ">", "?", "@", "A", "B", "C", "D", "E", "F", "G",
        "H", "I", "J", "K", "L", "M", "N", "O", "P", "Q", "R", "S", "T", "U",
        "V", "W", "X", "Y", "Z", "[", "\\", "]", "^", "_", "\\x96", "a", "b",
        "c", "d", "e", "f", "g", "h", "i", "j", "k", "l", "m", "n", "o", "p",
        "q", "r", "s", "t", "u", "v", "w", "x", "y", "z", "{", "|", "}", "~">>

\* string(decoded): a byte becomes its character
StringOf(bytes) ==
    [i \in 1..Len(bytes) |->
        IF bytes[i] >= 32 /\ bytes[i] <= 126
        THEN Printable[bytes[i] - 31]
        ELSE "\\x" \o ToString(bytes[i])]

-----------------------------------------------------------------------------
(* Requests: the auth middleware *)

\* http.Header, one value per name: Get, Set, Del
HeaderGet(h, key) == IF key \in DOMAIN h THEN h[key] ELSE <<>>

HeaderSet(h, key, value) ==
    [k \in (DOMAIN h) \cup {key} |-> IF k = key THEN value ELSE h[k]]

HeaderDel(h, key) == [k \in (DOMAIN h) \ {key} |-> h[k]]

\* mutant: no pattern is ever taken to match
isPublicPath_Never(path, publicPaths) == FALSE

\* mutant: a "/*" pattern is cut down to the text before the slash
isPublicPath_LoosePrefix(path, publicPaths) ==
    \E i \in 1..Len(publicPaths) :
        LET publicPath == publicPaths[i]
        IN  IF HasSuffix(publicPath, <<"/", "*">>)
            THEN HasPrefix(path, TrimSuffix(publicPath, <<"/", "*">>))
            ELSE IF HasSuffix(publicPath, <<"/">>)
            THEN HasPrefix(path, publicPath)
            ELSE path = publicPath

\* isPublicPath
isPublicPath(path, publicPaths) ==
    \E i \in 1..Len(publicPaths) :
        LET publicPath == publicPaths[i]
        IN  IF HasSuffix(publicPath, <<"/", "*">>)
            THEN HasPrefix(path, TrimSuffix(publicPath, <<"*">>))
            ELSE IF HasSuffix(publicPath, <<"/">>)
            THEN HasPrefix(path, publicPath)
            ELSE path = publicPath

\* The directory the middleware talks to: the accounts, with the password
\* that binds as the account and the groups the account is a member of.
DirectoryEntries ==
    { [sAMAccountName |-> <<"a", "l", "i", "c", "e">>, DN |-> <<"C", "N",
            "=", "a", "l", "i", "c", "e", ",", "D", "C", "=", "c", "o", "r",
            "p">>,
       password |-> <<"p", "w">>, memberOf |-> << <<"C", "N", "=", "A", "I",
               "-", "U", "s", "e", "r", "s", ",", "D", "C", "=", "c", "o",
               "r", "p">> >>],
      [sAMAccountName |-> <<"b", "o", "b">>, DN |-> <<"C", "N", "=", "b",
              "o", "b", ",", "D", "C", "=", "c", "o", "r", "p">>,
       password |-> <<"p", "w">>, memberOf |-> << <<"C", "N", "=", "H", "R",
               ",", "D", "C", "=", "c", "o", "r", "p">> >>] }

\* How the directory server behaves during one request: whether the dial,
\* the service account's bind and the search succeed.
LDAPOutcomes ==
    { [dial |-> TRUE, serviceBind |-> TRUE, search |-> TRUE],
      [dial |-> FALSE, serviceBind |-> TRUE, search |-> TRUE],
      [dial |-> TRUE, serviceBind |-> FALSE, search |-> TRUE],
      [dial |-> TRUE, serviceBind |-> TRUE, search |-> FALSE] }

\* mutant: the bind with the user's own password is skipped
authenticateAndAuthorize_NoUserBind(c, l, username, password) ==
    IF ~l.dial THEN "dial"
    ELSE IF ~l.serviceBind THEN "serviceBind"
    ELSE IF ~l.search THEN "search"
    ELSE LET entries == { e \in DirectoryEntries : e.sAMAccountName = username }
         IN  IF entries = {} THEN "notFound"
             ELSE LET entry == CHOOSE e \in entries : TRUE
                      userGroups == entry.memberOf
                      allowed == c.AD.AllowedGroups
                  IN  IF \E a \in 1..Len(allowed), g \in 1..Len(userGroups) :
                            Contains(ToLower(userGroups[g]),
                                    ToLower(allowed[a]))
                      THEN "nil"
                      ELSE "notAuthorized"

\* authenticateAndAuthorize: the error it returns, "nil" for none. The search
\* matches the account name as typed; a bind with an empty password is
\* refused.
authenticateAndAuthorize(c, l, username, password) ==
    IF ~l.dial THEN "dial"
    ELSE IF ~l.serviceBind THEN "serviceBind"
    ELSE IF ~l.search THEN "search"
    ELSE LET entries == { e \in DirectoryEntries : e.sAMAccountName = username }
         IN  IF entries = {} THEN "notFound"
             ELSE LET entry == CHOOSE e \in entries : TRUE
                      userGroups == entry.memberOf
                      allowed == c.AD.AllowedGroups
                  IN  IF password = <<>> \/ password # entry.password
                      THEN "invalidCredentials"
                      ELSE IF \E a \in 1..Len(allowed),
                              g \in 1..Len(userGroups) :
                                 Contains(ToLower(userGroups[g]),
                                         ToLower(allowed[a]))
                      THEN "nil"
                      ELSE "notAuthorized"

\* mutant: the authenticated user name is not written to X-Forwarded-User
LDAPAuthMiddlewareBody_KeepClientUser(c, l, path, h) ==
    LET pass == [next |-> TRUE, status |-> 0, header |-> h, dials |-> 0]
        deny(code, d) == [next |-> FALSE, status |-> code, header |-> h,
                dials |-> d]
        authHeader == HeaderGet(h, "Authorization")
        encoded == TrimPrefix(authHeader, <<"B", "a", "s", "i", "c", " ">>)
        decoded == DecodeString(encoded)
        credentials == SplitN(StringOf(decoded.bytes), ":")
    IN  IF c.AD.Enabled = "false" THEN pass
        ELSE IF isPublicPath(path, c.AD.PublicPaths) THEN pass
        ELSE IF authHeader = <<>> THEN deny(401, 0)
        ELSE IF ~HasPrefix(authHeader, <<"B", "a", "s", "i", "c",
                " ">>) THEN deny(401, 0)
        ELSE IF decoded.err THEN deny(401, 0)
        ELSE IF Len(credentials) # 2 THEN deny(401, 0)
        ELSE IF authenticateAndAuthorize(c, l, credentials[1],
                credentials[2]) # "nil"
        THEN deny(403, 1)
        ELSE [next |-> TRUE, status |-> 0, header |-> h, dials |-> 1]

\* mutant: credentials without a colon are taken to the directory and refused
\* there
LDAPAuthMiddlewareBody_ColonLate(c, l, path, h) ==
    LET pass == [next |-> TRUE, status |-> 0, header |-> h, dials |-> 0]
        deny(code, d) == [next |-> FALSE, status |-> code, header |-> h,
                dials |-> d]
        authHeader == HeaderGet(h, "Authorization")
        encoded == TrimPrefix(authHeader, <<"B", "a", "s", "i", "c", " ">>)
        decoded == DecodeString(encoded)
        credentials == SplitN(StringOf(decoded.bytes), ":")
    IN  IF c.AD.Enabled = "false" THEN pass
        ELSE IF isPublicPath(path, c.AD.PublicPaths) THEN pass
        ELSE IF authHeader = <<>> THEN deny(401, 0)
        ELSE IF ~HasPrefix(authHeader, <<"B", "a", "s", "i", "c",
                " ">>) THEN deny(401, 0)
        ELSE IF decoded.err THEN deny(401, 0)
        ELSE IF Len(credentials) # 2 THEN deny(403, 1)
        ELSE IF authenticateAndAuthorize(c, l, credentials[1],
                credentials[2]) # "nil"
        THEN deny(403, 1)
        ELSE [next |-> TRUE, status |-> 0,
              header |-> HeaderSet(h, "X-Forwarded-User", credentials[1]),
              dials |-> 1]

\* mutant: a request let through without authentication loses the
\* X-Forwarded-User header its client sent
LDAPAuthMiddlewareBody_StripsClientUser(c, l, path, h) ==
    LET pass == [next |-> TRUE, status |-> 0,
                 header |-> HeaderDel(h, "X-Forwarded-User"), dials |-> 0]
        deny(code, d) == [next |-> FALSE, status |-> code, header |-> h,
                dials |-> d]
        authHeader == HeaderGet(h, "Authorization")
        encoded == TrimPrefix(authHeader, <<"B", "a", "s", "i", "c", " ">>)
        decoded == DecodeString(encoded)
        credentials == SplitN(StringOf(decoded.bytes), ":")
    IN  IF c.AD.Enabled = "false" THEN pass
        ELSE IF isPublicPath(path, c.AD.PublicPaths) THEN pass
        ELSE IF authHeader = <<>> THEN deny(401, 0)
        ELSE IF ~HasPrefix(authHeader, <<"B", "a", "s", "i", "c",
                " ">>) THEN deny(401, 0)
        ELSE IF decoded.err THEN deny(401, 0)
        ELSE IF Len(credentials) # 2 THEN deny(401, 0)
        ELSE IF authenticateAndAuthorize(c, l, credentials[1],
                credentials[2]) # "nil"
        THEN deny(403, 1)
        ELSE [next |-> TRUE, status |-> 0,
              header |-> HeaderSet(h, "X-Forwarded-User", credentials[1]),
              dials |-> 1]

\* The handler LDAPAuthMiddleware returns, on a request with path `path` and
\* headers h: whether next.ServeHTTP is called, the status written otherwise,
\* the request's headers afterwards and the number of directory connections
\* opened.
LDAPAuthMiddlewareBody(c, l, path, h) ==
    LET pass == [next |-> TRUE, status |-> 0, header |-> h, dials |-> 0]
        deny(code, d) == [next |-> FALSE, status |-> code, header |-> h,
                dials |-> d]
        authHeader == HeaderGet(h, "Authorization")
        encoded == TrimPrefix(authHeader, <<"B", "a", "s", "i", "c", " ">>)
        decoded == DecodeString(encoded)
        credentials == SplitN(StringOf(decoded.bytes), ":")
    IN  IF c.AD.Enabled = "false" THEN pass
        ELSE IF isPublicPath(path, c.AD.PublicPaths) THEN pass
        ELSE IF authHeader = <<>> THEN deny(401, 0)
        ELSE IF ~HasPrefix(authHeader, <<"B", "a", "s", "i", "c",
                " ">>) THEN deny(401, 0)
        ELSE IF decoded.err THEN deny(401, 0)
        ELSE IF Len(credentials) # 2 THEN deny(401, 0)
        ELSE IF authenticateAndAuthorize(c, l, credentials[1],
                credentials[2]) # "nil"
        THEN deny(403, 1)
        ELSE [next |-> TRUE, status |-> 0,
              header |-> HeaderSet(h, "X-Forwarded-User", credentials[1]),
              dials |-> 1]

-----------------------------------------------------------------------------
(* Requests: the proxy handler *)

\* Handler.ServeHTTP: the family a path is routed to, "none" for 404
Route(path) ==
    IF HasPrefix(path, <<"/", "o", "l", "l", "a", "m", "a",
            "/">>) THEN "ollama"
    ELSE IF HasPrefix(path, <<"/", "v", "l", "l", "m", "/">>) THEN "vllm"
    ELSE IF HasPrefix(path, <<"/", "o", "p", "e", "n", "a", "i",
            "/">>) THEN "openai"
    ELSE "none"

Backends == {"ollama", "vllm", "openai"}

\* "req.URL.Path = strings.TrimPrefix(req.URL.Path, prefix)", "/" when empty
StripPrefix(path, prefix) ==
    LET p == TrimPrefix(path, prefix)
    IN  IF p = <<>> THEN <<"/">> ELSE p

\* mutant: the Director leaves the client's Authorization header in place
ollamaDirector_KeepAuthorization(h, path, serverURL, remoteAddr) ==
    LET h1 == h
        h2 == IF HeaderGet(h1, "X-Forwarded-User") # <<>>
              THEN HeaderSet(h1, "X-Forwarded-User", HeaderGet(h1,
                      "X-Forwarded-User"))
              ELSE h1
        h3 == HeaderSet(h2, "X-Forwarded-For", remoteAddr)
        h4 == HeaderSet(h3, "X-Forwarded-Proto", <<"h", "t", "t", "p", "s">>)
    IN  [Host |-> serverURL, Path |-> StripPrefix(path, <<"/", "o", "l", "l",
            "a", "m", "a">>), Header |-> h4]

\* the Director of handleOllama: the request as it leaves for serverURL
ollamaDirector(h, path, serverURL, remoteAddr) ==
    LET h1 == HeaderDel(h, "Authorization")
        h2 == IF HeaderGet(h1, "X-Forwarded-User") # <<>>
              THEN HeaderSet(h1, "X-Forwarded-User", HeaderGet(h1,
                      "X-Forwarded-User"))
              ELSE h1
        h3 == HeaderSet(h2, "X-Forwarded-For", remoteAddr)
        h4 == HeaderSet(h3, "X-Forwarded-Proto", <<"h", "t", "t", "p", "s">>)
    IN  [Host |-> serverURL, Path |-> StripPrefix(path, <<"/", "o", "l", "l",
            "a", "m", "a">>), Header |-> h4]

\* the Director of handleVLLM
vllmDirector(h, path, serverURL, remoteAddr) ==
    LET h1 == HeaderDel(h, "Authorization")
        h2 == IF HeaderGet(h1, "X-Forwarded-User") # <<>>
              THEN HeaderSet(h1, "X-Forwarded-User", HeaderGet(h1,
                      "X-Forwarded-User"))
              ELSE h1
        h3 == HeaderSet(h2, "X-Forwarded-For", remoteAddr)
        h4 == HeaderSet(h3, "X-Forwarded-Proto", <<"h", "t", "t", "p", "s">>)
    IN  [Host |-> serverURL, Path |-> StripPrefix(path, <<"/", "v", "l", "l",
            "m">>), Header |-> h4]

\* openaiProxy.Director; the path was stripped by handleOpenAI before
openaiDirector(c, h, path) ==
    LET h1 == HeaderDel(h, "Authorization")
        h2 == HeaderSet(h1, "Authorization", <<"B", "e", "a", "r", "e", "r",
                " ">> \o c.Backends.OpenAIAPIKey)
        h3 == IF HeaderGet(h2, "X-Forwarded-User") # <<>>
              THEN HeaderSet(h2, "X-Forwarded-User", HeaderGet(h2,
                      "X-Forwarded-User"))
              ELSE h2
    IN  [Host |-> c.Backends.OpenAIEndpoint, Path |-> path, Header |-> h3]

-----------------------------------------------------------------------------
(* Requests: inputs *)

\* Configurations. AD.Enabled is a *bool: "nil" when the key is not set.
Configs ==
    { [AD |-> [Enabled |-> e, AllowedGroups |-> g, PublicPaths |-> p],
       Backends |-> [OpenAIEndpoint |-> "https://api.openai.com/v1",
                     OpenAIAPIKey |-> <<"s", "k", "-", "k", "e", "y">>]] :
      e \in {"nil", "true", "false"},
      g \in { <<>>, << <<"a", "i", "-", "u", "s", "e", "r", "s">> >> },
      p \in { <<>>, << <<"/", "o", "l", "l", "a", "m", "a", "/", "*">>,
              <<"/", "h", "e", "a", "l", "t", "h">> >>, << <<"/", "o", "p",
              "e", "n", "a", "i", "/">> >> } }

\* Authorization headers a client sends. kind, user and pass say what the
\* header is, independently of the code that parses it: kind is "basic" for
\* "Basic " followed by the base64 of user:pass.
AuthorizationHeaders ==
    { [value |-> <<>>, kind |-> "absent", user |-> "", pass |-> ""],
      [value |-> <<"B", "e", "a", "r", "e", "r", " ", "s", "k", "-", "c",
              "l", "i", "e", "n", "t">>, kind |-> "otherScheme", user |-> "",
              pass |-> ""],
      [value |-> <<"b", "a", "s", "i", "c", " ", "Y", "W", "x", "p", "Y",
              "2", "U", "6", "c", "H", "c", "=">>, kind |-> "otherScheme",
              user |-> "", pass |-> ""],
      [value |-> <<"B", "a", "s", "i", "c", " ", "!", "!", "!", "!">>,
              kind |-> "badBase64", user |-> "", pass |-> ""],
      [value |-> <<"B", "a", "s", "i", "c", " ", "Y", "W", "x", "p", "Y",
              "2", "U", "6", "c", "H", "c">>, kind |-> "badBase64",
              user |-> "", pass |-> ""],
      [value |-> <<"B", "a", "s", "i", "c", " ", "Y", "W", "x", "p", "Y",
              "2", "U", "=">>, kind |-> "noColon", user |-> "", pass |-> ""],
      [value |-> <<"B", "a", "s", "i", "c", " ", "Y", "W", "x", "p", "Y",
              "2", "U", "6", "c", "H", "c", "=">>, kind |-> "basic",
              user |-> "alice", pass |-> "pw"],
      [value |-> <<"B", "a", "s", "i", "c", " ", "Y", "m", "9", "i", "O",
              "n", "B", "3">>, kind |-> "basic", user |-> "bob",
              pass |-> "pw"],
      [value |-> <<"B", "a", "s", "i", "c", " ", "Y", "W", "x", "p", "Y",
              "2", "U", "6", "Y", "m", "F", "k">>, kind |-> "basic",
              user |-> "alice", pass |-> "bad"],
      [value |-> <<"B", "a", "s", "i", "c", " ", "Y", "W", "x", "p", "Y",
              "2", "U", "6">>, kind |-> "basic", user |-> "alice",
              pass |-> ""],
      [value |-> <<"B", "a", "s", "i", "c", " ", "O", "n", "B", "3">>,
              kind |-> "basic", user |-> "", pass |-> "pw"] }

\* X-Forwarded-User values a client sends, the empty one for none
ClientForwardedUsers == { <<>>, <<"m", "a", "l", "l", "o", "r", "y">> }

\* Request paths, with the family the router serves them under
RequestPaths ==
    { [Path |-> <<"/", "o", "l", "l", "a", "m", "a", "/", "a", "p", "i">>,
            family |-> "ollama"],
      [Path |-> <<"/", "v", "l", "l", "m", "/", "v", "1">>,
              family |-> "vllm"],
      [Path |-> <<"/", "o", "p", "e", "n", "a", "i", "/", "v", "1">>,
              family |-> "openai"],
      [Path |-> <<"/", "o", "l", "l", "a", "m", "a", "-", "a", "d", "m", "i",
              "n">>, family |-> "none"],
      [Path |-> <<"/", "h", "e", "a", "l", "t", "h">>, family |-> "none"] }

\* the headers of a request carrying the Authorization header a and the
\* X-Forwarded-User value u
ClientHeader(a, u) ==
    LET h0 == [k \in {} |-> <<>>]
        h1 == IF a.kind = "absent" THEN h0 ELSE HeaderSet(h0,
                "Authorization", a.value)
    IN  IF u = <<>> THEN h1 ELSE HeaderSet(h1, "X-Forwarded-User", u)

Requests ==
    { [Path |-> p.Path, family |-> p.family, Header |-> ClientHeader(a, u),
       RemoteAddr |-> <<"1", "0", ".", "0", ".", "0", ".", "7", ":", "5",
               "5", "5", "5">>, auth |-> a] :
      p \in RequestPaths, a \in AuthorizationHeaders,
              u \in ClientForwardedUsers }

-----------------------------------------------------------------------------
(* Requests: actions *)

\* no request in the system
IdleRequest ==
    /\ cfg = CHOOSE c \in Configs : c.AD.Enabled = "nil" /\ c.AD.AllowedGroups = <<>>
                                    /\ c.AD.PublicPaths = <<>>
    /\ ldap = [dial |-> TRUE, serviceBind |-> TRUE, search |-> TRUE]
    /\ req = CHOOSE r \in Requests : r.family = "none" /\ r.auth.kind = "absent"
                                     /\ r.Header = <<>> /\ r.Path = <<"/",
                                             "h", "e", "a", "l", "t", "h">>
    /\ hdr = <<>>
    /\ urlPath = <<>>
    /\ rpc = "done"
    /\ resp = 0
    /\ nextCalls = 0
    /\ ldapDials = 0
    /\ upstreamRequests = <<>>
    /\ proxyErrors = [b \in Backends |-> 0]
    /\ latencyObs = [b \in Backends |-> 0]
    /\ roundTrip = "none"
    /\ proxyRequests = [b \in Backends |-> 0]
    /\ errorHandlerSets = 0

\* a request arrives at the handler main registers for the three prefixes
InitRequest ==
    /\ cfg \in Configs
    /\ ldap \in LDAPOutcomes
    /\ req \in Requests
    /\ hdr = req.Header
    /\ urlPath = req.Path
    /\ rpc = "middleware"
    /\ resp = 0
    /\ nextCalls = 0
    /\ ldapDials = 0
    /\ upstreamRequests = <<>>
    /\ proxyErrors = [b \in Backends |-> 0]
    /\ latencyObs = [b \in Backends |-> 0]
    /\ roundTrip = "none"
    /\ proxyRequests = [b \in Backends |-> 0]
    /\ errorHandlerSets = 0

\* an entry as construction left it, or as three failed polls left it
PolledEntry(url, how) ==
    LET m0 == [s \in {url} |-> NewServerMetrics(url)]
    IN  IF how = "failed"
        THEN handleServerError(handleServerError(handleServerError(m0, url,
                1), url, 1),
                               url, 1)[url]
        ELSE m0[url]

\* The balancer of the request's family when the request arrives: every
\* configured backend either not polled yet or failed three times.
InitRequestLB ==
    /\ variant = IF req.family = "vllm" THEN "vllm" ELSE "ollama"
    /\ servers \in IF req.family \in {"ollama",
            "vllm"} THEN SUBSET URLs ELSE {{}}
    /\ \E how \in [servers -> {"fresh", "failed"}] :
          /\ metrics = [s \in servers |-> PolledEntry(s, how[s])]
          /\ failStreak = [s \in servers |-> IF how[s] = "failed" THEN 3 ELSE 0]
    /\ roundRobinIndex = 0
    /\ inflight = {}
    /\ lbOp = NoOp
    /\ readmitted = {}
    /\ selRun = 0

\* LDAPAuthMiddleware's handler, up to its call of next.ServeHTTP
LDAPAuthMiddleware ==
    /\ rpc = "middleware"
    /\ LET r == LDAPAuthMiddlewareBody(cfg, ldap, urlPath, hdr)
       IN  /\ hdr' = r.header
           /\ ldapDials' = ldapDials + r.dials
           /\ resp' = r.status
           /\ rpc' = IF r.next THEN "next" ELSE "done"
           /\ nextCalls' = IF r.next THEN nextCalls + 1 ELSE nextCalls
    /\ UNCHANGED <<proxyRequests, errorHandlerSets, roundTrip, cfg, ldap, req, urlPath, upstreamRequests, proxyErrors,
            latencyObs>>
    /\ UNCHANGED <<now, auxState, lbState, regState, lockState, raceState>>

\* Handler.ServeHTTP, a path under none of the three prefixes: http.NotFound
ServeHTTPNotFound ==
    /\ rpc = "next"
    /\ Route(urlPath) = "none"
    /\ resp' = 404
    /\ rpc' = "done"
    /\ UNCHANGED <<proxyRequests, errorHandlerSets, roundTrip, cfg, ldap, req, hdr, urlPath, nextCalls, ldapDials,
                   upstreamRequests, proxyErrors, latencyObs>>
    /\ UNCHANGED <<now, auxState, lbState, regState, lockState, raceState>>

\* mutant: the 503 is answered without counting a proxy error
handleOllama_ErrorNotCounted ==
    /\ rpc = "next"
    /\ Route(urlPath) = "ollama"
    /\ variant = "ollama"
    /\ \E order \in Orders(AvailableKeys(metrics)) :
          LET r == SelectServerIn(variant, metrics, roundRobinIndex, order)
          IN  /\ roundRobinIndex' = r.rr
              /\ lbOp' = [op |-> "select", url |-> r.url, err |-> r.err,
                          branch |-> r.branch]
              /\ IF r.err
                 THEN /\ resp' = 503
                      /\ rpc' = "done"
                      /\ UNCHANGED <<proxyErrors, upstreamRequests>>
                 ELSE /\ upstreamRequests' =
                            Append(upstreamRequests,
                                   ollamaDirector(hdr, urlPath, r.url,
                                           req.RemoteAddr))
                      /\ rpc' = "upstream"
                      /\ UNCHANGED <<proxyErrors, resp>>
    /\ selRun' = selRun + 1
    /\ UNCHANGED <<proxyRequests, errorHandlerSets, roundTrip, cfg, ldap, req, hdr, urlPath, nextCalls, ldapDials,
            latencyObs>>
    /\ UNCHANGED <<variant, servers, metrics, inflight, failStreak,
            readmitted>>
    /\ UNCHANGED <<now, auxState, regState, lockState, raceState>>

\* Handler.ServeHTTP -> handleOllama, up to the request leaving for the
\* selected backend (or the 503 when none is available)
handleOllama ==
    /\ rpc = "next"
    /\ Route(urlPath) = "ollama"
    /\ variant = "ollama"
    /\ \E order \in Orders(AvailableKeys(metrics)) :
          LET r == SelectServerIn(variant, metrics, roundRobinIndex, order)
          IN  /\ roundRobinIndex' = r.rr
              /\ lbOp' = [op |-> "select", url |-> r.url, err |-> r.err,
                          branch |-> r.branch]
              /\ IF r.err
                 THEN /\ proxyErrors' = [proxyErrors EXCEPT !["ollama"] = @ + 1]
                      /\ resp' = 503
                      /\ rpc' = "done"
                      /\ UNCHANGED upstreamRequests
                 ELSE /\ upstreamRequests' =
                            Append(upstreamRequests,
                                   ollamaDirector(hdr, urlPath, r.url,
                                           req.RemoteAddr))
                      /\ rpc' = "upstream"
                      /\ UNCHANGED <<proxyErrors, resp>>
    /\ selRun' = selRun + 1
    /\ UNCHANGED <<proxyRequests, errorHandlerSets, roundTrip, cfg, ldap, req, hdr, urlPath, nextCalls, ldapDials,
            latencyObs>>
    /\ UNCHANGED <<variant, servers, metrics, inflight, failStreak,
            readmitted>>
    /\ UNCHANGED <<now, auxState, regState, lockState, raceState>>

\* Handler.ServeHTTP -> handleVLLM, likewise
handleVLLM ==
    /\ rpc = "next"
    /\ Route(urlPath) = "vllm"
    /\ variant = "vllm"
    /\ \E order \in Orders(AvailableKeys(metrics)) :
          LET r == SelectServerIn(variant, metrics, roundRobinIndex, order)
          IN  /\ roundRobinIndex' = r.rr
              /\ lbOp' = [op |-> "select", url |-> r.url, err |-> r.err,
                          branch |-> r.branch]
              /\ IF r.err
                 THEN /\ proxyErrors' = [proxyErrors EXCEPT !["vllm"] = @ + 1]
                      /\ resp' = 503
                      /\ rpc' = "done"
                      /\ UNCHANGED upstreamRequests
                 ELSE /\ upstreamRequests' =
                            Append(upstreamRequests,
                                   vllmDirector(hdr, urlPath, r.url,
                                           req.RemoteAddr))
                      /\ rpc' = "upstream"
                      /\ UNCHANGED <<proxyErrors, resp>>
    /\ selRun' = selRun + 1
    /\ UNCHANGED <<proxyRequests, errorHandlerSets, roundTrip, cfg, ldap, req, hdr, urlPath, nextCalls, ldapDials,
            latencyObs>>
    /\ UNCHANGED <<variant, servers, metrics, inflight, failStreak,
            readmitted>>
    /\ UNCHANGED <<now, auxState, regState, lockState, raceState>>

\* Handler.ServeHTTP -> handleOpenAI, up to the request leaving for the
\* configured endpoint
handleOpenAI ==
    /\ rpc = "next"
    /\ Route(urlPath) = "openai"
    /\ urlPath' = StripPrefix(urlPath, <<"/", "o", "p", "e", "n", "a", "i">>)
    /\ upstreamRequests' = Append(upstreamRequests, openaiDirector(cfg, hdr,
            urlPath'))
    /\ errorHandlerSets' = errorHandlerSets + 1
    /\ rpc' = "upstream"
    /\ UNCHANGED <<proxyRequests, roundTrip, cfg, ldap, req, hdr, resp,
            nextCalls, ldapDials, proxyErrors, latencyObs>>
    /\ UNCHANGED <<now, auxState, lbState, regState, lockState, raceState>>

\* the backend answers with a status; the handler records the latency
RoundTripResponse(status) ==
    /\ rpc = "upstream"
    /\ resp' = status
    /\ latencyObs' = [latencyObs EXCEPT ![req.family] = @ + 1]
    /\ rpc' = "done"
    /\ roundTrip' = "response"
    /\ UNCHANGED <<proxyRequests, errorHandlerSets, cfg, ldap, req, hdr, urlPath, nextCalls, ldapDials,
                   upstreamRequests, proxyErrors>>
    /\ UNCHANGED <<now, auxState, lbState, regState, lockState, raceState>>

\* RoundTripError as it would be if the proxy reported the failed round trip
\* to the balancer (passive health checking), which the ErrorHandler does not
RoundTripError_MarksBackend ==
    /\ rpc = "upstream"
    /\ proxyErrors' = [proxyErrors EXCEPT ![req.family] = @ + 1]
    /\ resp' = 502
    /\ latencyObs' = [latencyObs EXCEPT ![req.family] = @ + 1]
    /\ rpc' = "done"
    /\ roundTrip' = "error"
    /\ metrics' = IF lbOp.op = "select" /\ lbOp.url \in servers
                  THEN handleServerError(metrics, lbOp.url, 1)
                  ELSE metrics
    /\ UNCHANGED <<proxyRequests, errorHandlerSets, cfg, ldap, req, hdr, urlPath, nextCalls, ldapDials,
                   upstreamRequests>>
    /\ UNCHANGED <<variant, servers, roundRobinIndex, inflight, lbOp,
                   failStreak, readmitted, selRun>>
    /\ UNCHANGED <<now, auxState, regState, lockState, raceState>>

\* the round trip fails: the ErrorHandler answers 502 and counts the error,
\* then the handler records the latency
RoundTripError ==
    /\ rpc = "upstream"
    /\ proxyErrors' = [proxyErrors EXCEPT ![req.family] = @ + 1]
    /\ resp' = 502
    /\ latencyObs' = [latencyObs EXCEPT ![req.family] = @ + 1]
    /\ rpc' = "done"
    /\ roundTrip' = "error"
    /\ UNCHANGED <<proxyRequests, errorHandlerSets, cfg, ldap, req, hdr, urlPath, nextCalls, ldapDials,
                   upstreamRequests>>
    /\ UNCHANGED <<now, auxState, lbState, regState, lockState, raceState>>

\* Paths and patterns isPublicPath is tried on
PublicPathInputs ==
    { <<"/", "x", "/">>, <<"/", "x", "/", "y">>, <<"/", "x", "-", "a", "d",
            "m", "i", "n", "/">>, <<"/", "x">>, <<"/">>, <<>>, <<"/", "x",
            "/", "*">>, <<"/", "y">> }

PublicPathPatterns ==
    { <<"/", "x", "/", "*">>, <<"/", "x", "/">>, <<"/", "x">>, <<"/", "*">>,
            <<"/">>, <<"*">>, <<>>, <<"/", "y">> }

\* the lists of at most MaxPatterns patterns
PatternLists ==
    UNION { [1..n -> PublicPathPatterns] : n \in 0..MaxPatterns }

\* a request without credentials for one of the paths, at a middleware with
\* auth enabled and one of the pattern lists: next is called exactly when
\* isPublicPath answers true
InitPublicPath ==
    /\ cfg \in { [AD |-> [Enabled |-> "true", AllowedGroups |-> <<>>,
                          PublicPaths |-> pl],
                  Backends |-> [OpenAIEndpoint |-> "https://api.openai.com/v1",
                                OpenAIAPIKey |-> <<"s", "k", "-", "k", "e",
                                        "y">>]] :
                 pl \in PatternLists }
    /\ ldap = [dial |-> TRUE, serviceBind |-> TRUE, search |-> TRUE]
    /\ req \in { [Path |-> p, family |-> "none", Header |-> <<>>,
                  RemoteAddr |-> <<"1", "0", ".", "0", ".", "0", ".", "7",
                          ":", "5", "5", "5", "5">>,
                  auth |-> [value |-> <<>>, kind |-> "absent", user |-> "",
                            pass |-> ""]] :
                 p \in PublicPathInputs }
    /\ hdr = req.Header
    /\ urlPath = req.Path
    /\ rpc = "middleware"
    /\ resp = 0
    /\ nextCalls = 0
    /\ ldapDials = 0
    /\ upstreamRequests = <<>>
    /\ proxyErrors = [b \in Backends |-> 0]
    /\ latencyObs = [b \in Backends |-> 0]
    /\ roundTrip = "none"
    /\ proxyRequests = [b \in Backends |-> 0]
    /\ errorHandlerSets = 0

NextPublicPath ==
    \/ LDAPAuthMiddleware
    \/ ServeHTTPNotFound

NextRequest ==
    \/ LDAPAuthMiddleware
    \/ ServeHTTPNotFound
    \/ handleOllama
    \/ handleVLLM
    \/ handleOpenAI
    \/ \E status \in {200, 500} : RoundTripResponse(status)
    \/ RoundTripError

-----------------------------------------------------------------------------
(* Specifications *)

\* the pointer-level maps, unused
IdleCopies ==
    /\ heap = <<>>
    /\ nodePtr = <<>>
    /\ metricsPtr = <<>>
    /\ returned = {}
    /\ copyOp = [op |-> "none", touched |-> {}]

\* the background loops: mDNS discovery, the health checker and the two
\* load balancers' polling
Stoppable == {"discovery", "health"}
Balancers == {"ollama", "vllm"}
Loops == Stoppable \cup Balancers

\* no component started
IdleLoops ==
    /\ mainPc = "startDiscovery"
    /\ loopPc = [l \in Loops |-> "notStarted"]
    /\ running = [l \in Stoppable |-> FALSE]
    /\ ctxDone = [l \in Stoppable |-> FALSE]
    /\ wgCount = [l \in Stoppable |-> 0]
    /\ sweeps = [l \in Loops |-> 0]

\* no balancer polling
IdleSweep ==
    /\ lbServers = <<>>
    /\ pollOf = <<>>
    /\ sweepPc = "new"
    /\ ticks = 0
    /\ errAtStart = <<>>

IdleAux == IdleCopies /\ IdleLoops /\ IdleSweep

\* a component no action of the specification touches
IdleLB ==
    /\ variant = "ollama"
    /\ servers = {}
    /\ metrics = <<>>
    /\ roundRobinIndex = 0
    /\ inflight = {}
    /\ lbOp = NoOp
    /\ failStreak = <<>>
    /\ readmitted = {}
    /\ selRun = 0

\* the load balancer as constructed; nothing else runs
InitSpecLB == InitLB /\ InitRegistry /\ InitLock /\ IdleRequest /\ IdleRace /\ IdleAux

SpecLB == InitSpecLB /\ [][NextLB]_vars

\* the registry as constructed; no goroutine is inside a call
InitSpecRegistry ==
    now = 1 /\ IdleLB /\ InitRegistry /\ InitLock /\ IdleRequest /\ IdleRace /\ IdleAux

SpecRegistry == InitSpecRegistry /\ [][NextRegistry]_vars

SpecRegLock == InitSpecRegistry /\ [][NextRegLock]_vars

\* one request arrives; the balancers' polling and the registry stand still
InitSpecRequest ==
    now = 1 /\ InitRequest /\ InitRequestLB /\ InitRegistry /\ InitLock /\ IdleRace /\ IdleAux

SpecRequest == InitSpecRequest /\ [][NextRequest]_vars

\* the middleware in front of isPublicPath's inputs
InitSpecPublicPath ==
    now = 1 /\ InitPublicPath /\ IdleLB /\ InitRegistry /\ InitLock /\ IdleRace /\ IdleAux

SpecPublicPath == InitSpecPublicPath /\ [][NextPublicPath]_vars

\* a balancer with its goroutines: requests selecting while a sweep polls
InitSpecRace == InitRace /\ InitRegistry /\ InitLock /\ IdleRequest /\ IdleAux

SpecRace == InitSpecRace /\ [][NextRace]_vars

-----------------------------------------------------------------------------
(* Load balancer: properties *)

Server1 == "http://server1:11434"
Server2 == "http://server2:11434"

\* C3: SelectServer never returns a URL whose entry has Available = FALSE, and
\* it returns an error exactly when no entry is available.
C3_SelectOnlyAvailable ==
    lbOp.op = "select" =>
        /\ lbOp.err <=> (\A s \in servers : ~metrics[s].Available)
        /\ ~lbOp.err => (lbOp.url \in servers /\ metrics[lbOp.url].Available)

\* a selection succeeded while another entry was unavailable
C3_Witness ==
    /\ lbOp.op = "select"
    /\ ~lbOp.err
    /\ \E s \in servers : ~metrics[s].Available

C7_SuccessReadmits ==
    /\ lbOp.op \in {"success", "healthonly"} =>
          /\ metrics[lbOp.url].ErrorCount = 0
          /\ metrics[lbOp.url].Available
    /\ \A s \in readmitted : metrics[s].Available /\ metrics[s].ErrorCount = 0

\* an entry that had been unavailable was polled successfully and then
\* returned by SelectServer
C7_Witness ==
    /\ lbOp.op = "select"
    /\ ~lbOp.err
    /\ lbOp.url \in readmitted

\* the entries the weighted branch of SelectServer ranks
Probed ==
    { s \in servers : /\ metrics[s].Available
                      /\ metrics[s].LastCheck # 0
                      /\ variant = "vllm" => metrics[s].TotalWeight > 0 }

\* C8: when some available entry has been probed (vLLM: with a positive
\* weight), SelectServer returns a probed available entry of least TotalWeight.
C8_LeastWeight ==
    (lbOp.op = "select" /\ Probed # {}) =>
        /\ ~lbOp.err
        /\ lbOp.url \in Probed
        /\ \A q \in Probed : metrics[lbOp.url].TotalWeight <= metrics[q].TotalWeight

\* weights 150 and 50, both available: the fifth selection in a row returned
\* the second backend
C8_Witness ==
    /\ servers = {Server1, Server2}
    /\ metrics[Server1].Available /\ metrics[Server1].TotalWeight = Pct(150)
    /\ metrics[Server2].Available /\ metrics[Server2].TotalWeight = Pct(50)
    /\ selRun = 5
    /\ lbOp.op = "select"
    /\ lbOp.url = Server2

-----------------------------------------------------------------------------
(* Node registry: properties *)

\* C5: the registry cannot deadlock: a goroutine that holds the registry's
\* write lock (it is inside AddNode, RemoveNode, UpdateNodeStatus or
\* IncrementErrorCount, emit included) can always take its next step, so its
\* call returns and releases the lock.
C5_WriterNeverBlocked ==
    \A g \in Goroutines :
        (rwWriter = g /\ pc[g] \in {"Body", "RLock", "RLocked", "Unlock"})
            => ENABLED GoroutineStep(g)

\* the number of events of type e in the sequence evs
RECURSIVE CountOf(_, _)
CountOf(evs, e) ==
    IF evs = <<>> THEN 0
    ELSE (IF Head(evs) = e THEN 1 ELSE 0) + CountOf(Tail(evs), e)

C10_EventsOncePerTransition ==
    (regOp.op \in {"UpdateNodeStatus", "IncrementErrorCount"} /\ regOp.existed) =>
        LET old == regOp.oldStatus
            new == nodes[regOp.key].Status
            fails == CountOf(regOp.emitted, EventHealthFail)
            oks == CountOf(regOp.emitted, EventHealthOK)
        IN  /\ (old = NodeStatusHealthy /\ new = NodeStatusUnreachable) => fails = 1
            /\ (old # NodeStatusHealthy /\ new = NodeStatusHealthy) => oks = 1
            /\ old = NodeStatusUnreachable => fails = 0
            /\ old = NodeStatusHealthy => oks = 0

-----------------------------------------------------------------------------
(* Requests: properties *)

\* what the directory decides for the credentials the request carries: only
\* alice with her password is accepted, and only when a group is allowed
DirectoryFlowSucceeds ==
    /\ ldap.dial /\ ldap.serviceBind /\ ldap.search
    /\ req.auth.user = "alice"
    /\ req.auth.pass = "pw"
    /\ cfg.AD.AllowedGroups # <<>>

\* C1: with auth enabled and a path that matches no public_paths pattern, the
\* middleware calls the next handler (at most once) only for a request that
\* carried a well-formed Basic header and whose directory flow succeeded; for
\* every other request the router is never entered and nothing is forwarded.
C1_NextOnlyAfterAuth ==
    (cfg.AD.Enabled # "false" /\ ~isPublicPath(req.Path,
            cfg.AD.PublicPaths)) =>
        /\ nextCalls <= 1
        /\ nextCalls = 1 =>
              /\ req.auth.kind = "basic"
              /\ DirectoryFlowSucceeds
              /\ ldapDials = 1
        /\ nextCalls = 0 =>
              /\ rpc \in {"middleware", "done"}
              /\ upstreamRequests = <<>>
              /\ resp \in {0, 401, 403}

\* an authenticated request on a protected path went through to a backend
C1_Witness ==
    /\ cfg.AD.Enabled = "true"
    /\ ~isPublicPath(req.Path, cfg.AD.PublicPaths)
    /\ req.auth.user = "alice"
    /\ nextCalls = 1
    /\ rpc = "upstream"

\* C2: a request forwarded upstream has no Authorization header when it goes
\* to an Ollama or vLLM backend and the header "Bearer <shared key>" when it
\* goes to the OpenAI endpoint; in neither case the value the client sent.
C2_OutboundAuthorization ==
    \A i \in 1..Len(upstreamRequests) :
        LET out == upstreamRequests[i]
        IN  /\ req.family \in {"ollama", "vllm"} =>
                  "Authorization" \notin DOMAIN out.Header
            /\ req.family = "openai" =>
                  /\ "Authorization" \in DOMAIN out.Header
                  /\ out.Header["Authorization"] = <<"B", "e", "a", "r", "e",
                          "r", " ", "s", "k", "-", "k", "e", "y">>
            /\ req.auth.kind # "absent" =>
                  HeaderGet(out.Header, "Authorization") # req.auth.value

\* a request that carried credentials was forwarded to an Ollama backend
C2_Witness ==
    /\ Len(upstreamRequests) = 1
    /\ req.family = "ollama"
    /\ req.auth.kind = "basic"
    /\ cfg.AD.Enabled = "true"
    /\ upstreamRequests[1].Host \in servers

-----------------------------------------------------------------------------
(* Load balancer under lb.mutex: properties *)

\* C11: concurrent SelectServer calls lose no update of the round-robin index:
\* once every caller has returned, the index has advanced by the number of
\* calls that took the round-robin fallback; and no caller is inside
\* SelectServer while a poll worker is half-way through its update.
C11_RoundRobinAtomic ==
    /\ (\A g \in Selectors : selPc[g] = "done") =>
           roundRobinIndex =
               Cardinality({ g \in Selectors : selRes[g].branch = "roundrobin" })
    /\ pollPc.pc = "half" => lbReaders = {}

\* the request was not let through by a bypass and its credentials are the
\* ones the directory accepts
PassedAuthentication ==
    /\ cfg.AD.Enabled # "false"
    /\ ~isPublicPath(req.Path, cfg.AD.PublicPaths)
    /\ req.auth.kind = "basic"
    /\ DirectoryFlowSucceeds

\* C12: a request that passed directory authentication reaches the upstream
\* with X-Forwarded-User equal to the authenticated user name, whatever
\* X-Forwarded-User value the client had sent.
C12_ForwardedUserIsAuthenticated ==
    PassedAuthentication =>
        \A i \in 1..Len(upstreamRequests) :
            /\ "X-Forwarded-User" \in DOMAIN upstreamRequests[i].Header
            /\ upstreamRequests[i].Header["X-Forwarded-User"] = <<"a", "l",
                    "i", "c", "e">>

\* alice's request went upstream although it had come with
\* "X-Forwarded-User: mallory"
C12_Witness ==
    /\ PassedAuthentication
    /\ req.auth.user = "alice"
    /\ HeaderGet(req.Header, "X-Forwarded-User") = <<"m", "a", "l", "l", "o",
            "r", "y">>
    /\ Len(upstreamRequests) = 1

\* The request's path is public under the configured patterns, written out
\* for the paths and pattern lists of Requests and Configs: "/ollama/*" covers
\* "/ollama/api" but not "/ollama-admin", "/health" only itself, "/openai/"
\* covers "/openai/v1".
RequestIsPublic ==
    \/ /\ cfg.AD.PublicPaths = << <<"/", "o", "l", "l", "a", "m", "a", "/",
            "*">>, <<"/", "h", "e", "a", "l", "t", "h">> >>
       /\ req.Path \in { <<"/", "o", "l", "l", "a", "m", "a", "/", "a", "p",
               "i">>, <<"/", "h", "e", "a", "l", "t", "h">> }
    \/ /\ cfg.AD.PublicPaths = << <<"/", "o", "p", "e", "n", "a", "i",
            "/">> >>
       /\ req.Path = <<"/", "o", "p", "e", "n", "a", "i", "/", "v", "1">>

\* the middleware is to let the request through without authenticating it
Bypassed == cfg.AD.Enabled = "false" \/ RequestIsPublic

\* C13: with auth disabled, or with auth enabled and a path that matches a
\* public_paths pattern, the middleware passes the request to the next
\* handler whatever Authorization header it carries: once the middleware has
\* run, next was called once, no status was written by it, the directory was
\* never contacted and the headers are as the client sent them.
C13_BypassSkipsCredentials ==
    (Bypassed /\ rpc # "middleware") =>
        /\ nextCalls = 1
        /\ ldapDials = 0
        /\ hdr = req.Header
        /\ resp \notin {401, 403}

\* a public path with auth enabled and credentials the directory would
\* refuse: the request went to a backend
C13_Witness ==
    /\ cfg.AD.Enabled = "true"
    /\ RequestIsPublic
    /\ req.auth.kind = "basic"
    /\ req.auth.pass = "bad"
    /\ rpc = "upstream"

-----------------------------------------------------------------------------
(* isPublicPath: properties *)

\* path starts with the first n characters of pattern
StartsWithFirst(path, pattern, n) ==
    Len(path) >= n /\ \A i \in 1..n : path[i] = pattern[i]

\* what the rules for patterns say, character by character
PatternCovers(pattern, path) ==
    LET n == Len(pattern)
    IN  IF n >= 2 /\ pattern[n - 1] = "/" /\ pattern[n] = "*"
        THEN StartsWithFirst(path, pattern, n - 1)
        ELSE IF n >= 1 /\ pattern[n] = "/"
        THEN StartsWithFirst(path, pattern, n)
        ELSE path = pattern

\* C14: isPublicPath(path, patterns) is true exactly when some pattern of the
\* list covers the path ("/x/*": paths starting with "/x/"; "/x/": paths
\* starting with it; anything else: the identical path); "/x/*" covers "/x/"
\* and "/x/y" but neither "/x-admin/" nor "/x"; the empty list covers nothing.
C14_PublicPathMatching ==
    rpc # "middleware" =>
        LET public == nextCalls = 1
            patterns == cfg.AD.PublicPaths
        IN  /\ public <=> \E i \in 1..Len(patterns) : PatternCovers(patterns[i], req.Path)
            /\ patterns = <<>> => ~public
            /\ patterns = << <<"/", "x", "/", "*">> >> =>
                  /\ req.Path \in { <<"/", "x", "/">>, <<"/", "x", "/",
                          "y">> } => public
                  /\ req.Path \in { <<"/", "x", "-", "a", "d", "m", "i", "n",
                          "/">>, <<"/", "x">> } => ~public

\* "/x-admin/" was refused under the patterns "/y" and "/x/*"
C14_Witness ==
    /\ cfg.AD.PublicPaths = << <<"/", "y">>, <<"/", "x", "/", "*">> >>
    /\ req.Path = <<"/", "x", "-", "a", "d", "m", "i", "n", "/">>
    /\ rpc = "done"
    /\ resp = 401

\* the middleware is to authenticate the request
Protected == cfg.AD.Enabled # "false" /\ ~RequestIsPublic

\* C15: on a protected path a request whose Authorization header is absent,
\* not Basic, not base64 or without a colon is answered 401 and the directory
\* is not contacted; a request with Basic credentials for which any step of
\* the directory flow fails is answered 403; neither is forwarded.
C15_Rejections ==
    (Protected /\ rpc # "middleware") =>
        /\ req.auth.kind \in {"absent", "otherScheme", "badBase64",
                "noColon"} =>
              /\ resp = 401
              /\ ldapDials = 0
              /\ nextCalls = 0 /\ rpc = "done" /\ upstreamRequests = <<>>
        /\ (req.auth.kind = "basic" /\ ~DirectoryFlowSucceeds) =>
              /\ resp = 403
              /\ nextCalls = 0 /\ rpc = "done" /\ upstreamRequests = <<>>

\* credentials without a colon were answered 401 although the directory would
\* have been reachable
C15_Witness ==
    /\ Protected
    /\ req.auth.kind = "noColon"
    /\ ldap.dial
    /\ resp = 401
    /\ rpc = "done"

\* the request went through the middleware to its family's handler, which
\* has returned, and no backend of the family was available: every
\* configured one (if any) had failed its last three polls
HandledWithoutBackend ==
    /\ req.family \in {"ollama", "vllm"}
    /\ nextCalls = 1
    /\ rpc = "done"
    /\ \A s \in servers : failStreak[s] >= 3

\* C16: when SelectServer fails because no backend is available the proxy
\* answers 503, counts one proxy error for the backend family and none for
\* another, and sends nothing upstream.
C16_NoBackendIs503 ==
    HandledWithoutBackend =>
        /\ resp = 503
        /\ proxyErrors = [b \in Backends |-> IF b = req.family THEN 1 ELSE 0]
        /\ upstreamRequests = <<>>
        /\ lbOp.op = "select" /\ lbOp.err

\* an Ollama request found both configured backends unavailable
C16_Witness ==
    /\ HandledWithoutBackend
    /\ req.family = "ollama"
    /\ servers = URLs
    /\ resp = 503

\* The entries as the polls before the request left them: only polls move
\* failStreak, three failed polls take an entry out of rotation
AsPollsLeftThem ==
    \A s \in servers :
        metrics[s] = PolledEntry(s,
                IF failStreak[s] = 3 THEN "failed" ELSE "fresh")

\* C17: a request calls SelectServer at most once and sends at most one
\* request upstream, to the backend that call selected; when the round trip
\* fails the client gets 502 and proxy_errors_total of the request's backend
\* label is incremented once; whatever happens to the request, error_count and
\* availability of every balancer entry stay as the polls left them.
C17_NoRetryAcrossBackends ==
    /\ selRun <= 1
    /\ Len(upstreamRequests) <= 1
    /\ Len(upstreamRequests) = 1 /\ req.family \in {"ollama", "vllm"} =>
           selRun = 1 /\ lbOp.op = "select" /\ ~lbOp.err
    /\ roundTrip = "error" =>
           /\ resp = 502
           /\ proxyErrors = [b \in Backends |-> IF b = req.family THEN 1 ELSE 0]
           /\ Len(upstreamRequests) = 1
    /\ AsPollsLeftThem

\* a request whose round trip to a selected backend failed, while another
\* backend of the same balancer was available
C17_Witness ==
    /\ roundTrip = "error" /\ rpc = "done" /\ req.family = "ollama"
    /\ selRun = 1 /\ resp = 502
    /\ Cardinality({ s \in servers : metrics[s].Available }) = 2

\* the available entries a poll has stamped
Checked ==
    { s \in servers : metrics[s].Available /\ metrics[s].LastCheck # 0 }

\* the probed available entries of least TotalWeight
LeastProbed ==
    { s \in Probed : \A q \in Probed : metrics[s].TotalWeight <= metrics[q].TotalWeight }

\* C18 as stated: in every state in which some available entry has
\* last_check # 0, a SelectServer call that follows a SelectServer call with
\* no poll in between returns the same URL as the first, and that URL has
\* the least total_weight of the stamped available entries.
C18_SameURLTwice ==
    [][(lbOp.op = "select" /\ selRun' = selRun + 1 /\ Checked # {}) =>
           /\ lbOp'.url = lbOp.url
           /\ lbOp'.url \in Checked
           /\ \A q \in Checked :
                  metrics[lbOp'.url].TotalWeight <= metrics[q].TotalWeight]_vars

\* C18, amended: in every state in which some available entry has
\* last_check # 0 (vLLM: and total_weight > 0), a SelectServer call that
\* follows a SelectServer call with no poll in between returns, like the
\* first, a probed available entry of least total_weight; the two return the
\* same URL when one entry alone has the least total_weight.
C18_SameURLWhenUniqueMinimum ==
    [][(lbOp.op = "select" /\ selRun' = selRun + 1 /\ Probed # {}) =>
           /\ ~lbOp.err /\ ~lbOp'.err
           /\ lbOp.url \in LeastProbed
           /\ lbOp'.url \in LeastProbed
           /\ roundRobinIndex' = roundRobinIndex
           /\ Cardinality(LeastProbed) = 1 => lbOp'.url = lbOp.url]_vars

\* two selections in a row over two probed available backends of different
\* weight
C18_Witness ==
    /\ selRun >= 2 /\ lbOp.op = "select"
    /\ Probed = {Server1, Server2}
    /\ LeastProbed = {Server2}
    /\ lbOp.url = Server2

\* the available entries whose latest poll failed
FailingButAvailable ==
    { s \in servers : metrics[s].Available /\ failStreak[s] >= 1 }

\* C19: Ollama variant, the latest poll of every available backend failed
\* (the metrics endpoint does not respond) and some backend is still
\* available: a SelectServer call is served by the round-robin branch, not by
\* the minimum-weight scan.
C19_FallbackToRoundRobin ==
    (/\ variant = "ollama"
     /\ lbOp.op = "select"
     /\ FailingButAvailable # {}
     /\ FailingButAvailable = AvailableKeys(metrics)) =>
        /\ ~lbOp.err
        /\ lbOp.branch = "roundrobin"

\* the step is the end of a vLLM poll of url whose /health answered 200 and
\* whose /metrics gave nothing usable
HealthOnlyPollOf(url) ==
    /\ variant = "vllm"
    /\ url \in inflight /\ inflight' = inflight \ {url}
    /\ lbOp' = [op |-> "healthonly", url |-> url, err |-> FALSE,
            branch |-> "none"]

\* C20: a vLLM poll whose health probe answers 200 while the metrics request
\* fails, answers another status or does not parse leaves the entry with
\* available = true, error_count = 0 and last_check = now, with the stored
\* figures and total_weight as they were, and leaves every other entry alone.
C20_HealthOnlyKeepsMetrics ==
    [][\A url \in servers :
          HealthOnlyPollOf(url) =>
              /\ metrics'[url].Available
              /\ metrics'[url].ErrorCount = 0
              /\ metrics'[url].LastCheck = now
              /\ metrics'[url].CPUPercent = metrics[url].CPUPercent
              /\ metrics'[url].RAMPercent = metrics[url].RAMPercent
              /\ metrics'[url].GPUCount = metrics[url].GPUCount
              /\ metrics'[url].GPUAvgUtil = metrics[url].GPUAvgUtil
              /\ metrics'[url].GPUAvgMemory = metrics[url].GPUAvgMemory
              /\ metrics'[url].TotalWeight = metrics[url].TotalWeight
              /\ metrics'[url].URL = url
              /\ \A o \in servers \ {url} : metrics'[o] = metrics[o]
              /\ roundRobinIndex' = roundRobinIndex]_vars

\* a backend that had reported a weight of 150 and then dropped out of
\* rotation is back after a health-only poll, its weight still 150
C20_Witness ==
    /\ variant = "vllm"
    /\ lbOp.op = "healthonly"
    /\ lbOp.url \in readmitted
    /\ metrics[lbOp.url].Available
    /\ metrics[lbOp.url].ErrorCount = 0
    /\ metrics[lbOp.url].TotalWeight = Pct(150)

\* One entry per host:port, one call at a time: every entry sits under the
\* key of its own host and port; AddNode leaves its key present and emits
\* NodeDiscovered exactly when the key was new; RemoveNode leaves its key
\* absent and emits NodeLost exactly when the key existed.
C21_AddRemoveEvents ==
    /\ \A k \in DOMAIN nodes : nodeKeyFromNode(nodes[k]) = k
    /\ regOp.op = "AddNode" =>
           /\ regOp.key \in DOMAIN nodes
           /\ regOp.emitted = IF regOp.existed THEN <<>> ELSE <<EventNodeDiscovered>>
    /\ regOp.op = "RemoveNode" =>
           /\ regOp.key \notin DOMAIN nodes
           /\ regOp.emitted = IF regOp.existed THEN <<EventNodeLost>> ELSE <<>>

\* no goroutine that is inside a registry call can take a step
AtRest == \A g \in Goroutines : ~ENABLED GoroutineStep(g)

\* C21, the concurrent part: once the concurrent AddNode calls and reads have
\* run as far as they can, the registry holds the key of every AddNode call
\* made, so Count is the number of distinct keys added.
C21_CountAfterConcurrentAdds ==
    AtRest =>
        \A g \in Goroutines :
            call[g].op = "AddNode" => nodeKeyFromNode(call[g].node) \in DOMAIN nodes

C23_LastSeenOnEveryWrite ==
    [][\A k \in DOMAIN nodes' :
          /\ (k \notin DOMAIN nodes \/ nodes'[k] # nodes[k]) =>
                 nodes'[k].LastSeen = now'
          /\ k \in DOMAIN nodes => nodes'[k].LastSeen >= nodes[k].LastSeen]_vars

\* the half of C23 the code keeps: LastSeen never moves back and is never
\* ahead of the clock
C23_LastSeenMonotone ==
    [][\A k \in DOMAIN nodes' :
          /\ nodes'[k].LastSeen <= now'
          /\ k \in DOMAIN nodes => nodes'[k].LastSeen >= nodes[k].LastSeen]_vars

-----------------------------------------------------------------------------
(* The maps as Go keeps them: r.nodes and lb.metrics hold pointers, the     *)
(* writers change the objects in place, the queries allocate copies.        *)

\* the objects the heap may hold
MaxObjects == 5

\* r.nodes as values: what each key's pointer leads to
StoredNodes == [k \in DOMAIN nodePtr |-> heap[nodePtr[k]]]

\* lb.metrics as values
StoredMetrics == [u \in DOMAIN metricsPtr |-> heap[metricsPtr[u]]]

\* the heap after the objects the pointers ptrs lead to took the values vals
WriteThrough(hp, ptrs, vals) ==
    [a \in DOMAIN hp |->
        IF \E k \in DOMAIN ptrs : ptrs[k] = a /\ k \in DOMAIN vals
        THEN vals[CHOOSE k \in DOMAIN ptrs : ptrs[k] = a /\ k \in DOMAIN vals]
        ELSE hp[a]]

\* GetNode: "nodeCopy := *node; return &nodeCopy", nil for a key not there.
\* The result is the heap and the addresses returned.
GetNodeBody(hp, ptrs, host, port) ==
    LET key == nodeKey(host, port)
    IN  IF key \notin DOMAIN ptrs
        THEN [heap |-> hp, result |-> <<>>]
        ELSE [heap |-> Append(hp, hp[ptrs[key]]), result |-> <<Len(hp) + 1>>]

\* The loop of GetAllNodes, GetNodesByType, GetHealthyNodes and
\* GetHealthyNodesByType over r.nodes visited in the order `order`: each node
\* that passes the filter is copied and the copy's address appended.
\* nodeType "" stands for no filter on the type.
RECURSIVE CopyNodes(_, _, _, _, _)
CopyNodes(hp, ptrs, order, nodeType, healthyOnly) ==
    IF order = <<>> THEN [heap |-> hp, result |-> <<>>]
    ELSE LET node == hp[ptrs[Head(order)]]
             keep == /\ nodeType # "" => node.Type = nodeType
                     /\ healthyOnly => node.Status = NodeStatusHealthy
             hp1 == IF keep THEN Append(hp, node) ELSE hp
             rest == CopyNodes(hp1, ptrs, Tail(order), nodeType, healthyOnly)
         IN  [heap |-> rest.heap,
              result |-> IF keep THEN <<Len(hp) + 1>> \o rest.result ELSE rest.result]

GetAllNodesBody(hp, ptrs, order) == CopyNodes(hp, ptrs, order, "", FALSE)

GetNodesByTypeBody(hp, ptrs, order, nodeType) ==
    CopyNodes(hp, ptrs, order, nodeType, FALSE)

GetHealthyNodesBody(hp, ptrs, order) == CopyNodes(hp, ptrs, order, "", TRUE)

GetHealthyNodesByTypeBody(hp, ptrs, order, nodeType) ==
    CopyNodes(hp, ptrs, order, nodeType, TRUE)

\* mutant: the map returned holds the balancer's own pointers
GetMetricsBody_SharesEntries(hp, ptrs, order) ==
    [heap |-> hp, result |-> [i \in 1..Len(order) |-> ptrs[order[i]]]]

\* GetMetrics: "metricsCopy := *v; result[k] = &metricsCopy" for every entry
RECURSIVE GetMetricsBody(_, _, _)
GetMetricsBody(hp, ptrs, order) ==
    IF order = <<>> THEN [heap |-> hp, result |-> <<>>]
    ELSE LET rest == GetMetricsBody(Append(hp, hp[ptrs[Head(order)]]), ptrs,
            Tail(order))
         IN  [heap |-> rest.heap, result |-> <<Len(hp) + 1>> \o rest.result]

SeqRange(s) == { s[i] : i \in DOMAIN s }

\* NewOllamaLoadBalancer / NewVLLMLoadBalancer: one ServerMetrics allocated
\* per configured URL; NewRegistry: an empty map
InitCopies ==
    /\ heap = <<NewServerMetrics(Server1), NewServerMetrics(Server2)>>
    /\ metricsPtr = [u \in URLs |-> IF u = Server1 THEN 1 ELSE 2]
    /\ nodePtr = <<>>
    /\ returned = {}
    /\ copyOp = [op |-> "none", touched |-> {}]

\* what the actions below leave alone
notCopies == <<now, lbState, regState, lockState, reqState, raceState,
               loopState, sweepState>>

\* AddNode: the caller's Node (discovery allocates one per entry it
\* processes) is stamped and its pointer stored under its key
AddNodePtr(node) ==
    /\ Len(heap) < MaxObjects
    /\ LET key == nodeKeyFromNode(node)
           r == AddNodeBody(StoredNodes, node, now)
       IN  /\ heap' = Append(heap, r.nodes[key])
           /\ nodePtr' = MapSet(nodePtr, key, Len(heap) + 1)
           /\ copyOp' = [op |-> "AddNode", touched |-> {Len(heap) + 1}]
    /\ UNCHANGED <<metricsPtr, returned>>
    /\ UNCHANGED notCopies

\* UpdateNodeStatus writes the stored Node through its pointer
UpdateNodeStatusPtr(host, port, status) ==
    /\ nodeKey(host, port) \in DOMAIN nodePtr
    /\ LET r == UpdateNodeStatusBody(StoredNodes, host, port, status, now)
       IN  /\ heap' = WriteThrough(heap, nodePtr, r.nodes)
           /\ copyOp' = [op |-> "UpdateNodeStatus",
                         touched |-> {nodePtr[nodeKey(host, port)]}]
    /\ UNCHANGED <<nodePtr, metricsPtr, returned>>
    /\ UNCHANGED notCopies

\* IncrementErrorCount writes the stored Node through its pointer
IncrementErrorCountPtr(host, port, maxErrors) ==
    /\ nodeKey(host, port) \in DOMAIN nodePtr
    /\ heap[nodePtr[nodeKey(host, port)]].ErrorCount \in 0..(maxErrors - 1)
    /\ LET r == IncrementErrorCountBody(StoredNodes, host, port, maxErrors)
       IN  /\ heap' = WriteThrough(heap, nodePtr, r.nodes)
           /\ copyOp' = [op |-> "IncrementErrorCount",
                         touched |-> {nodePtr[nodeKey(host, port)]}]
    /\ UNCHANGED <<nodePtr, metricsPtr, returned>>
    /\ UNCHANGED notCopies

\* RemoveNode drops the pointer; the object stays wherever it is referenced
RemoveNodePtr(host, port) ==
    /\ nodeKey(host, port) \in DOMAIN nodePtr
    /\ nodePtr' = MapDelete(nodePtr, nodeKey(host, port))
    /\ copyOp' = [op |-> "RemoveNode", touched |-> {}]
    /\ UNCHANGED <<heap, metricsPtr, returned>>
    /\ UNCHANGED notCopies

\* checkServer, a successful poll: the stored ServerMetrics is written
\* through "metrics := lb.metrics[serverURL]"
checkServerPtr(serverURL, data) ==
    /\ heap' = WriteThrough(heap, metricsPtr,
                            checkServerUpdate(StoredMetrics, serverURL, data,
                                    now))
    /\ heap' # heap
    /\ copyOp' = [op |-> "checkServer", touched |-> {metricsPtr[serverURL]}]
    /\ UNCHANGED <<nodePtr, metricsPtr, returned>>
    /\ UNCHANGED notCopies

\* a query has run: its copies are in the heap and with the caller
Returned(op, r) ==
    /\ Len(r.heap) <= MaxObjects
    /\ r.result # <<>>
    /\ heap' = r.heap
    /\ returned' = returned \cup SeqRange(r.result)
    /\ copyOp' = [op |-> op, touched |-> SeqRange(r.result)]
    /\ UNCHANGED <<nodePtr, metricsPtr>>
    /\ UNCHANGED notCopies

GetNode(host, port) == Returned("GetNode", GetNodeBody(heap, nodePtr, host,
        port))

GetAllNodes ==
    \E order \in Orders(DOMAIN nodePtr) :
        Returned("GetAllNodes", GetAllNodesBody(heap, nodePtr, order))

GetNodesByType(nodeType) ==
    \E order \in Orders(DOMAIN nodePtr) :
        Returned("GetNodesByType", GetNodesByTypeBody(heap, nodePtr, order,
                nodeType))

GetHealthyNodes ==
    \E order \in Orders(DOMAIN nodePtr) :
        Returned("GetHealthyNodes", GetHealthyNodesBody(heap, nodePtr, order))

GetHealthyNodesByType(nodeType) ==
    \E order \in Orders(DOMAIN nodePtr) :
        Returned("GetHealthyNodesByType",
                 GetHealthyNodesByTypeBody(heap, nodePtr, order, nodeType))

GetMetrics ==
    \E order \in Orders(DOMAIN metricsPtr) :
        Returned("GetMetrics", GetMetricsBody(heap, metricsPtr, order))

\* what a caller does to an object it holds: a value no registry or balancer
\* code writes
CallerWrite(object) == [object EXCEPT !.ErrorCount = 0 - 1]

\* the body the polled backends answer with here
PolledBodies ==
    { data \in MetricsBodies : data.cpu_percent = Pct(80) }

\* the nodes discovery hands to AddNode
DiscoveredNodes == { n \in InputNodes : n.Status = NodeStatusUnknown }

\* the caller of a query writes a field of an object it was handed
CallerWrites(a) ==
    /\ a \in returned
    /\ heap[a] # CallerWrite(heap[a])
    /\ heap' = [heap EXCEPT ![a] = CallerWrite(heap[a])]
    /\ copyOp' = [op |-> "CallerWrites", touched |-> {a}]
    /\ UNCHANGED <<nodePtr, metricsPtr, returned>>
    /\ UNCHANGED notCopies

NextCopies ==
    \/ \E n \in DiscoveredNodes : AddNodePtr(n)
    \/ \E h \in Hosts : UpdateNodeStatusPtr(h, Port, NodeStatusHealthy)
    \/ \E h \in Hosts : IncrementErrorCountPtr(h, Port, 1)
    \/ \E h \in Hosts : RemoveNodePtr(h, Port)
    \/ \E u \in URLs, data \in PolledBodies : checkServerPtr(u, data)
    \/ \E h \in Hosts : GetNode(h, Port)
    \/ GetAllNodes
    \/ GetNodesByType("ollama")
    \/ GetHealthyNodes
    \/ GetHealthyNodesByType("ollama")
    \/ GetMetrics
    \/ \E a \in returned : CallerWrites(a)

\* the maps as constructed; callers query them while the writers run
InitSpecCopies ==
    now = 1 /\ IdleLB /\ InitRegistry /\ InitLock /\ IdleRequest /\ IdleRace
            /\ InitCopies /\ IdleLoops /\ IdleSweep

SpecCopies == InitSpecCopies /\ [][NextCopies]_vars

\* C24: no step changes an object a query returned together with the stored
\* state: a caller writing to a returned Node or ServerMetrics leaves r.nodes
\* and lb.metrics as they were, and a write by the registry or the balancer
\* leaves every object returned earlier as it was. An object is returned
\* with the field values its stored original had at that moment.
C24_QueriesReturnCopies ==
    [][/\ (\E a \in returned : heap'[a] # heap[a]) =>
              (StoredNodes' = StoredNodes /\ StoredMetrics' = StoredMetrics)
       /\ (StoredNodes' # StoredNodes \/ StoredMetrics' # StoredMetrics) =>
              \A a \in returned : heap'[a] = heap[a]
       /\ \A a \in returned' \ returned :
              /\ a \notin SeqRange(nodePtr') \cup SeqRange(metricsPtr')
              /\ \E b \in SeqRange(nodePtr) \cup SeqRange(metricsPtr) :
                     heap'[a] = heap[b]]_vars

\* a caller has written to the copy GetMetrics gave it, after a poll had
\* already moved the stored entry on: copy and original differ both ways
C24_Witness ==
    /\ copyOp.op = "CallerWrites"
    /\ \E a \in copyOp.touched, u \in URLs :
          /\ "URL" \in DOMAIN heap[a]
          /\ heap[a].URL = u
          /\ heap[a].ErrorCount = 0 - 1
          /\ heap[a].LastCheck = 0
          /\ StoredMetrics[u].ErrorCount = 0
          /\ StoredMetrics[u].LastCheck = now

\* C25: once ServeHTTP has dispatched a request to the handler of /ollama/,
\* /vllm/ or /openai/, proxy_requests_total of that backend stands at one and
\* the other backends' counters at zero, whether or not a backend has been
\* selected or contacted yet.
C25_RequestCountedOnEntry ==
    (req.family \in Backends /\ nextCalls = 1 /\ rpc \in {"upstream",
            "done"}) =>
        proxyRequests = [b \in Backends |-> IF b = req.family THEN 1 ELSE 0]

\* C26: when the handler of a request dispatched to /ollama/, /vllm/ or
\* /openai/ has returned, proxy_latency_seconds of that backend holds exactly
\* one observation of the request, whatever the outcome was: an upstream
\* response, 502 after a failed round trip, or 503 for want of a backend.
C26_LatencyOnEveryOutcome ==
    (req.family \in Backends /\ nextCalls = 1 /\ rpc = "done") =>
        latencyObs = [b \in Backends |-> IF b = req.family THEN 1 ELSE 0]

\* the outcomes on which the code does record: the request went upstream
C26_LatencyWhenProxied ==
    (req.family \in Backends /\ nextCalls = 1 /\ rpc = "done") =>
        latencyObs = [b \in Backends |->
                         IF b = req.family /\ roundTrip # "none" THEN 1 ELSE 0]

\* C27: every request sent upstream, for /ollama/, /vllm/ and /openai/ alike,
\* carries X-Forwarded-For equal to the client's remote address and
\* X-Forwarded-Proto equal to "https", both set by the Director.
C27_ForwardedHeaders ==
    \A i \in 1..Len(upstreamRequests) :
        /\ HeaderGet(upstreamRequests[i].Header, "X-Forwarded-For") =
               req.RemoteAddr
        /\ HeaderGet(upstreamRequests[i].Header, "X-Forwarded-Proto") =
               <<"h", "t", "t", "p", "s">>

\* the two families whose Director does set the headers
C27_ForwardedHeadersOfBalanced ==
    req.family \in {"ollama", "vllm"} =>
        \A i \in 1..Len(upstreamRequests) :
            /\ HeaderGet(upstreamRequests[i].Header, "X-Forwarded-For") =
                   req.RemoteAddr
            /\ HeaderGet(upstreamRequests[i].Header, "X-Forwarded-Proto") =
                   <<"h", "t", "t", "p", "s">>

\* C30: the request path only reads process-wide state. No step of a request
\* changes a ServerMetrics entry, the set of servers or the poll bookkeeping;
\* the round-robin index changes only in a selection that took the fallback
\* branch; and no field of the Handler shared by concurrent requests, such as
\* its openaiProxy, is assigned.
C30_RequestPathReadOnly ==
    [][/\ metrics' = metrics
       /\ servers' = servers
       /\ roundRobinIndex' # roundRobinIndex =>
              (lbOp'.op = "select" /\ lbOp'.branch = "roundrobin")
       /\ errorHandlerSets' = errorHandlerSets]_vars

\* the load-balancer half, which the code keeps
C30_SelectionFrame ==
    [][/\ metrics' = metrics
       /\ servers' = servers
       /\ roundRobinIndex' # roundRobinIndex =>
              (lbOp'.op = "select" /\ lbOp'.branch = "roundrobin")]_vars

-----------------------------------------------------------------------------
(* mDNS discovery (internal/mdns) and the health checker's checkNode        *)
(* (internal/registry), both writing to the registry.                       *)

OllamaServiceType == "_ollama._tcp"
OpenAIServiceType == "_openai._tcp"
VLLMServiceType == "_vllm._tcp"

\* serviceTypeToNodeType
serviceTypeToNodeType(serviceType) ==
    CASE serviceType = OllamaServiceType -> "ollama"
      [] serviceType = OpenAIServiceType -> "openai"
      [] serviceType = VLLMServiceType -> "vllm"
      [] OTHER -> ""

\* strings.TrimSuffix(name, "."), a name being the sequence of its labels
\* and dots
TrimSuffixDot(name) ==
    IF Len(name) > 0 /\ name[Len(name)] = "."
    THEN SubSeq(name, 1, Len(name) - 1)
    ELSE name

RECURSIVE Join(_)
Join(name) == IF name = <<>> THEN "" ELSE Head(name) \o Join(Tail(name))

\* the service types browsed: the three of DefaultConfig and one the
\* configuration may add that serviceTypeToNodeType does not know
BrowsedServiceTypes ==
    {OllamaServiceType, OpenAIServiceType, VLLMServiceType, "_http._tcp"}

NilEntry == [nil |-> TRUE, Instance |-> "", AddrIPv4 |-> <<>>,
             AddrIPv6 |-> <<>>, HostName |-> <<>>, Port |-> 0]

\* what the resolver delivers: entries with IPv4 addresses, with IPv6 only,
\* with a host name only, with neither, and nil
ServiceEntries ==
    { [nil |-> FALSE, Instance |-> "llm", AddrIPv4 |-> a4, AddrIPv6 |-> a6,
       HostName |-> hn, Port |-> Port] :
          a4 \in {<<>>, <<"192.168.1.100", "192.168.1.101">>},
          a6 \in {<<>>, <<"fe80::1">>},
          hn \in {<<>>, <<"node1", ".", "local", ".">>} }
    \cup {NilEntry}

\* the host processEntry picks: the first IPv4 address, else the first IPv6
\* address, else the host name without its final dot
EntryHost(entry) ==
    LET host1 == IF Len(entry.AddrIPv4) > 0 THEN entry.AddrIPv4[1] ELSE ""
        host2 == IF host1 = "" /\ Len(entry.AddrIPv6) > 0
                 THEN entry.AddrIPv6[1] ELSE host1
    IN  IF host2 = "" /\ entry.HostName # <<>>
        THEN Join(TrimSuffixDot(entry.HostName))
        ELSE host2

Skipped(ns) == [nodes |-> ns, emitted |-> <<>>, ret |-> FALSE, key |-> ""]

\* mutant: a scan result replaces the registry's content
processEntryBody_Replaces(ns, serviceType, entry, t) ==
    LET nodeType == serviceTypeToNodeType(serviceType)
        host == EntryHost(entry)
        node == [Name |-> entry.Instance, Type |-> nodeType, Host |-> host,
                 Port |-> entry.Port, Status |-> NodeStatusUnknown,
                 LastSeen |-> 0, ErrorCount |-> 0]
    IN  IF entry.nil \/ nodeType = "" \/ host = ""
        THEN Skipped(ns)
        ELSE [nodes |-> AddNodeBody(<<>>, node, t).nodes,
              emitted |-> AddNodeBody(ns, node, t).emitted,
              ret |-> FALSE, key |-> nodeKeyFromNode(node)]

\* processEntry: the new map, the events emitted and the key written ("" when
\* the entry is skipped)
processEntryBody(ns, serviceType, entry, t) ==
    LET nodeType == serviceTypeToNodeType(serviceType)
        host == EntryHost(entry)
        node == [Name |-> entry.Instance, Type |-> nodeType, Host |-> host,
                 Port |-> entry.Port, Status |-> NodeStatusUnknown,
                 LastSeen |-> 0, ErrorCount |-> 0]
    IN  IF entry.nil \/ nodeType = "" \/ host = ""
        THEN Skipped(ns)
        ELSE [nodes |-> AddNodeBody(ns, node, t).nodes,
              emitted |-> AddNodeBody(ns, node, t).emitted,
              ret |-> FALSE, key |-> nodeKeyFromNode(node)]

\* one entry of a scan
processEntry(serviceType, entry) ==
    LET r == processEntryBody(nodes, serviceType, entry, now)
    IN  /\ nodes' = r.nodes
        /\ regOp' = Record(Found("processEntry", r.key, serviceType), r)
        /\ UNCHANGED <<now, callbacks, nonRegistry>>

\* checkNode on one node of the snapshot checkAll took, the probe having
\* found it healthy or not
checkNode(key, healthy) ==
    /\ key \in DOMAIN nodes
    /\ LET node == nodes[key]
           r == IF healthy
                THEN UpdateNodeStatusBody(nodes, node.Host, node.Port,
                                          NodeStatusHealthy, now)
                ELSE IncrementErrorCountBody(nodes, node.Host, node.Port,
                                             MaxErrors)
       IN  /\ ~healthy => node.ErrorCount < MaxErrors
           /\ nodes' = r.nodes
           /\ regOp' = Record(Found("checkNode", key,
                                    IF healthy THEN NodeStatusHealthy ELSE ""), r)
    /\ UNCHANGED <<now, callbacks, nonRegistry>>

DiscoveredKeys ==
    {nodeKey(EntryHost(e), e.Port) : e \in ServiceEntries \ {NilEntry}}

NextDiscovery ==
    \/ \E st \in BrowsedServiceTypes, e \in ServiceEntries : processEntry(st,
            e)
    \/ \E k \in DiscoveredKeys, healthy \in BOOLEAN : checkNode(k, healthy)

SpecDiscovery == InitSpecRegistry /\ [][NextDiscovery]_vars

\* C29: discovery never removes nodes. A processEntry step leaves every key
\* of the registry in place and every other node as it was; an entry that is
\* nil, of an unknown service type or without an address writes nothing.
C29_DiscoveryNeverRemoves ==
    [][regOp'.op = "processEntry" =>
          /\ DOMAIN nodes \subseteq DOMAIN nodes'
          /\ \A k \in DOMAIN nodes \ {regOp'.key} : nodes'[k] = nodes[k]
          /\ regOp'.key # "" => /\ regOp'.key \in DOMAIN nodes'
                                /\ serviceTypeToNodeType(regOp'.status) # ""
          /\ regOp'.key = "" => nodes' = nodes]_vars

\* a scan rediscovers a node while the registry holds others, and an entry
\* of an unknown service type is skipped
C29_Witness ==
    /\ regOp.op = "processEntry"
    /\ Cardinality(DOMAIN nodes) = 3
    /\ \/ regOp.key # "" /\ regOp.existed
       \/ regOp.key = "" /\ regOp.status = "_http._tcp"

-----------------------------------------------------------------------------
(* Start, the background loops and Stop (internal/mdns, internal/registry,  *)
(* internal/loadbalancer), driven by main: it starts discovery, the health  *)
(* checker and the two balancers, serves, and on shutdown runs its deferred *)
(* Stop calls,
        the health checker's first.                                   *)

MaxSweeps == 2         \* sweeps of a loop are counted up to here

\* main's way through its Start calls and its deferred Stop calls
AfterStart(l) ==
    CASE l = "discovery" -> "startHealth"
      [] l = "health" -> "startOllama"
      [] l = "ollama" -> "startVLLM"
      [] l = "vllm" -> "serving"

StartPc(l) ==
    CASE l = "discovery" -> "startDiscovery"
      [] l = "health" -> "startHealth"
      [] l = "ollama" -> "startOllama"
      [] l = "vllm" -> "startVLLM"

StopPc(l) == IF l = "health" THEN "stopHealth" ELSE "stopDiscovery"
WaitPc(l) == IF l = "health" THEN "waitHealth" ELSE "waitDiscovery"
AfterStop(l) == IF l = "health" THEN "stopDiscovery" ELSE "stopped"

notLoops == <<now, lbState, regState, lockState, reqState, raceState,
              copyState, sweepState>>

\* Discovery.Start / HealthChecker.Start: nothing when already running; else
\* the flag, the initial sweep, wg.Add(1) and the goroutine
StartStoppable(l) ==
    /\ mainPc = StartPc(l)
    /\ IF running[l]
       THEN UNCHANGED <<loopPc, running, wgCount, sweeps>>
       ELSE /\ running' = [running EXCEPT ![l] = TRUE]
            /\ sweeps' = [sweeps EXCEPT ![l] = @ + 1]
            /\ wgCount' = [wgCount EXCEPT ![l] = @ + 1]
            /\ loopPc' = [loopPc EXCEPT ![l] = "waiting"]
    /\ mainPc' = AfterStart(l)
    /\ UNCHANGED <<ctxDone, notLoops>>

\* OllamaLoadBalancer.Start / VLLMLoadBalancer.Start: the initial
\* checkAllServers, the ticker and the goroutine ranging over it
StartBalancer(l) ==
    /\ mainPc = StartPc(l)
    /\ sweeps' = [sweeps EXCEPT ![l] = @ + 1]
    /\ loopPc' = [loopPc EXCEPT ![l] = "waiting"]
    /\ mainPc' = AfterStart(l)
    /\ UNCHANGED <<running, ctxDone, wgCount, notLoops>>

\* "case <-ticker.C" of the select (taken also when the context is done and
\* the ticker is ready: select picks among the ready cases), and the next
\* value of "for range ticker.C"
TickerFires(l) ==
    /\ loopPc[l] = "waiting"
    /\ loopPc' = [loopPc EXCEPT ![l] = "sweep"]
    /\ sweeps' = [sweeps EXCEPT ![l] = IF @ < MaxSweeps THEN @ + 1 ELSE @]
    /\ UNCHANGED <<mainPc, running, ctxDone, wgCount, notLoops>>

\* the sweep returns: its probes answered, timed out or were cancelled with
\* the context they derive from
SweepDone(l) ==
    /\ loopPc[l] = "sweep"
    /\ loopPc' = [loopPc EXCEPT ![l] = "waiting"]
    /\ UNCHANGED <<mainPc, running, ctxDone, wgCount, sweeps, notLoops>>

\* "case <-ctx.Done(): return", with the deferred wg.Done()
LoopExit(l) ==
    /\ loopPc[l] = "waiting"
    /\ ctxDone[l]
    /\ loopPc' = [loopPc EXCEPT ![l] = "exited"]
    /\ wgCount' = [wgCount EXCEPT ![l] = @ - 1]
    /\ UNCHANGED <<mainPc, running, ctxDone, sweeps, notLoops>>

\* shutdown: main leaves serving and its deferred calls run
Shutdown ==
    /\ mainPc = "serving"
    /\ mainPc' = "stopHealth"
    /\ UNCHANGED <<loopPc, running, ctxDone, wgCount, sweeps, notLoops>>

\* Stop up to cancel(): nothing when not running
StopCancel(l) ==
    /\ mainPc = StopPc(l)
    /\ IF ~running[l]
       THEN /\ mainPc' = AfterStop(l)
            /\ UNCHANGED <<running, ctxDone>>
       ELSE /\ running' = [running EXCEPT ![l] = FALSE]
            /\ ctxDone' = [ctxDone EXCEPT ![l] = TRUE]
            /\ mainPc' = WaitPc(l)
    /\ UNCHANGED <<loopPc, wgCount, sweeps, notLoops>>

\* wg.Wait() of Stop returns
StopWait(l) ==
    /\ mainPc = WaitPc(l)
    /\ wgCount[l] = 0
    /\ mainPc' = AfterStop(l)
    /\ UNCHANGED <<loopPc, running, ctxDone, wgCount, sweeps, notLoops>>

NextShutdown ==
    \/ \E l \in Stoppable : StartStoppable(l)
    \/ \E l \in Balancers : StartBalancer(l)
    \/ \E l \in Loops : TickerFires(l)
    \/ \E l \in Loops : SweepDone(l)
    \/ \E l \in Stoppable : LoopExit(l)
    \/ Shutdown
    \/ \E l \in Stoppable : StopCancel(l)
    \/ \E l \in Stoppable : StopWait(l)

InitSpecShutdown ==
    now = 1 /\ IdleLB /\ InitRegistry /\ InitLock /\ IdleRequest /\ IdleRace
            /\ IdleCopies /\ IdleLoops /\ IdleSweep

\* The tickers keep firing and every goroutine that can take a step takes
\* one; a select whose
\* "<-ctx.Done()" case stays ready takes it in the end.
FairShutdown ==
    /\ \A l \in Stoppable : WF_vars(StartStoppable(l))
    /\ \A l \in Balancers : WF_vars(StartBalancer(l))
    /\ \A l \in Loops : WF_vars(TickerFires(l))
    /\ \A l \in Loops : WF_vars(SweepDone(l))
    /\ \A l \in Stoppable : SF_vars(LoopExit(l))
    /\ \A l \in Stoppable : WF_vars(StopCancel(l))
    /\ \A l \in Stoppable : WF_vars(StopWait(l))

SpecShutdown == InitSpecShutdown /\ [][NextShutdown]_vars /\ FairShutdown

ShutdownSignalled ==
    mainPc \in {"stopHealth", "waitHealth", "stopDiscovery", "waitDiscovery",
                "stopped"}

\* Stop of component l has returned
StopReturned(l) ==
    IF l = "health"
    THEN mainPc \in {"stopDiscovery", "waitDiscovery", "stopped"}
    ELSE mainPc = "stopped"

\* C28: once shutdown is signalled every background loop terminates, the
\* two load balancers' polling loops included.
C28_LoopsTerminate ==
    ShutdownSignalled ~> (\A l \in Loops : loopPc[l] = "exited")

\* the loops with a Stop method do terminate, and main gets through both
\* Stop calls
C28_StoppableLoopsTerminate ==
    ShutdownSignalled ~>
        (mainPc = "stopped" /\ \A l \in Stoppable : loopPc[l] = "exited")

\* Stop returns only after the loop has exited
C28_StopWaitsForLoop ==
    \A l \in Stoppable : StopReturned(l) => loopPc[l] = "exited"

\* no sweep of a component starts after its Stop has returned
C28_NoSweepAfterStop ==
    [][\A l \in Stoppable :
          StopReturned(l) => (sweeps'[l] = sweeps[l] /\ loopPc'[l] = "exited")]_vars

\* C31: a node is marked unreachable only after MaxErrors consecutive failed
\* probes. Every successful probe of a registered node leaves its ErrorCount
\* at 0, also when the node was healthy already; so the failed probe that
\* directly follows a successful probe of the same node never marks it
\* unreachable.
C31_ConsecutiveFailuresOnly ==
    [][/\ (regOp'.op = "checkNode" /\ regOp'.status = NodeStatusHealthy
              /\ regOp'.existed /\ regOp' # regOp) =>
             nodes'[regOp'.key].ErrorCount = 0
       /\ (regOp.op = "checkNode" /\ regOp.status = NodeStatusHealthy
              /\ regOp'.op = "checkNode" /\ regOp'.status = ""
              /\ regOp'.key = regOp.key) =>
             nodes'[regOp'.key].Status # NodeStatusUnreachable]_vars

\* the reset the code does make: a successful probe of a node that was not
\* healthy leaves it healthy with ErrorCount 0
C31_ResetOnTransition ==
    [][(regOp'.op = "checkNode" /\ regOp'.status = NodeStatusHealthy
           /\ regOp'.existed /\ regOp'.oldStatus # NodeStatusHealthy) =>
          (nodes'[regOp'.key].ErrorCount = 0
              /\ nodes'[regOp'.key].Status = NodeStatusHealthy)]_vars

-----------------------------------------------------------------------------
(* The weight of a polled backend, over bodies with and without GPUs.       *)

\* 45.5% in the fixed-point representation
Pct45_5 == Pct(45) + 2

\* /metrics bodies: the figures of the documented example, a lighter host,
\* and GPU figures reported with and without a GPU count
WeightBodies ==
    { [cpu_percent |-> c, ram_percent |-> Pct(60), gpu_count |-> n,
       gpu_avg_utilization_percent |-> u, gpu_avg_memory_percent |-> g] :
          c \in {Pct45_5, Pct(20)}, n \in {0, 2},
          u \in {0, Pct(30)}, g \in {0, Pct(40)} }

NextWeight ==
    \/ checkAllServers
    \/ \E s \in URLs, d \in WeightBodies : CheckServerSuccess(s, d)

SpecWeight == InitSpecLB /\ [][NextWeight]_vars

\* C32: after a successful poll TotalWeight = cpu + ram + gpuWeight, where
\* gpuWeight = 1.5 * util + 1.5 * mem when gpu_count > 0 and 0 otherwise;
\* cpu 45.5, ram 60, two GPUs at 30 and 40 give 210.5.
C32_TotalWeight ==
    \A s \in DOMAIN metrics :
        LET m == metrics[s]
        IN  m.LastCheck # 0 =>
              /\ 2 * m.TotalWeight =
                     2 * (m.CPUPercent + m.RAMPercent)
                         + (IF m.GPUCount > 0
                            THEN 3 * (m.GPUAvgUtil + m.GPUAvgMemory) ELSE 0)
              /\ (m.CPUPercent = Pct45_5 /\ m.RAMPercent = Pct(60)
                     /\ m.GPUCount = 2 /\ m.GPUAvgUtil = Pct(30)
                     /\ m.GPUAvgMemory = Pct(40)) =>
                    m.TotalWeight = Pct(210) + 2

\* one backend polled with the example's figures, the other reporting GPU
\* figures with gpu_count 0
C32_Witness ==
    /\ servers = URLs
    /\ metrics[Server1].LastCheck # 0
    /\ metrics[Server1].GPUCount = 2
    /\ metrics[Server1].TotalWeight = Pct(210) + 2
    /\ metrics[Server2].LastCheck # 0
    /\ metrics[Server2].GPUCount = 0
    /\ metrics[Server2].GPUAvgUtil = Pct(30)
    /\ metrics[Server2].TotalWeight = Pct(20) + Pct(60)

-----------------------------------------------------------------------------
(* Nodes whose every probe fails: discovery scans and failed health probes. *)

NextFailing ==
    \/ \E st \in BrowsedServiceTypes, e \in ServiceEntries : processEntry(st,
            e)
    \/ \E k \in DiscoveredKeys : checkNode(k, FALSE)

\* the health checker keeps sweeping: a registered node is probed again
FairFailing == \A k \in DiscoveredKeys : WF_vars(checkNode(k, FALSE))

SpecFailing == InitSpecRegistry /\ [][NextFailing]_vars /\ FairFailing

\* the last registry call was a scan re-adding the registered key k
Readded(k) == regOp.op = "processEntry" /\ regOp.key = k /\ regOp.existed

\* C33: with the health checker scheduled fairly, a registered node whose
\* every probe fails is eventually unreachable, whatever discovery does in
\* between.
C33_FailingNodeUnreachable ==
    \A k \in DiscoveredKeys :
        (k \in DOMAIN nodes) ~>
            (k \in DOMAIN nodes /\ nodes[k].Status = NodeStatusUnreachable)

\* it is, once discovery stops re-adding it
C33_UnreachableOnceNotReadded ==
    \A k \in DiscoveredKeys :
        <>[](~Readded(k)) =>
            ((k \in DOMAIN nodes) ~>
                (k \in DOMAIN nodes /\ nodes[k].Status = NodeStatusUnreachable))

\* C34: on a bypassed request (auth disabled, or a public path) the
\* X-Forwarded-User value the client sent, or its absence, reaches the
\* upstream unchanged; on the authenticated path the upstream sees the
\* authenticated user name instead.
C34_ClientForwardedUserOnBypass ==
    \A i \in 1..Len(upstreamRequests) :
        HeaderGet(upstreamRequests[i].Header, "X-Forwarded-User") =
            IF Bypassed
            THEN HeaderGet(req.Header, "X-Forwarded-User")
            ELSE <<"a", "l", "i", "c", "e">>

\* a request on a public path carrying "X-Forwarded-User: mallory" and no
\* credentials went upstream with that header
C34_Witness ==
    /\ cfg.AD.Enabled = "true"
    /\ RequestIsPublic
    /\ req.auth.kind = "absent"
    /\ Len(upstreamRequests) = 1
    /\ HeaderGet(upstreamRequests[1].Header, "X-Forwarded-User") =
           <<"m", "a", "l", "l", "o", "r", "y">>

FailingAtZero ==
    { s \in servers : /\ metrics[s].Available
                      /\ failStreak[s] > 0
                      /\ metrics[s].TotalWeight = 0 }

C37_ZeroWeightStarved ==
    (/\ variant = "vllm"
     /\ lbOp.op = "select"
     /\ \E s \in servers : /\ metrics[s].Available
                           /\ metrics[s].LastCheck # 0
                           /\ metrics[s].TotalWeight > 0) =>
        /\ ~lbOp.err
        /\ lbOp.branch = "weighted"
        /\ metrics[lbOp.url].Available
        /\ metrics[lbOp.url].TotalWeight > 0

\* server1 answers the health probe without metrics and is available with
\* weight 0 and no error; server2 reports weight 150 and is the one returned
C37_Witness ==
    /\ variant = "vllm"
    /\ lbOp.op = "select"
    /\ lbOp.url = Server2
    /\ metrics[Server2].TotalWeight = Pct(150)
    /\ Server1 \in servers
    /\ metrics[Server1].Available
    /\ metrics[Server1].LastCheck # 0
    /\ metrics[Server1].ErrorCount = 0
    /\ metrics[Server1].TotalWeight = 0
    /\ selRun = MaxSelRun

-----------------------------------------------------------------------------
(* One balancer's polling, poll by poll: Start, the goroutine ranging over  *)
(* ticker.C, checkAllServers with its WaitGroup, and the checkServer        *)
(* goroutines, one per element of lb.servers.                               *)

\* lb.servers as configurations list them: one URL, two URLs, and one URL
\* listed twice
ConfiguredServers ==
    { <<Server1>>, <<Server1, Server2>>, <<Server1, Server1>> }

\* the body the polled backends answer with
SweepBody == CHOOSE d \in MetricsBodies : d.cpu_percent = Pct(20)

notSweep == <<regState, lockState, reqState, raceState, copyState, loopState>>

lbRest == <<variant, servers, roundRobinIndex, inflight, lbOp, failStreak,
            readmitted, selRun>>

\* NewOllamaLoadBalancer / NewVLLMLoadBalancer over a configured list
InitSpecSweep ==
    /\ now = 1
    /\ variant \in {"ollama", "vllm"}
    /\ lbServers \in ConfiguredServers
    /\ servers = { lbServers[i] : i \in 1..Len(lbServers) }
    /\ metrics = [s \in servers |-> NewServerMetrics(s)]
    /\ roundRobinIndex = 0
    /\ inflight = {}
    /\ lbOp = NoOp
    /\ failStreak = [s \in servers |-> 0]
    /\ readmitted = {}
    /\ selRun = 0
    /\ pollOf = [i \in 1..Len(lbServers) |-> "none"]
    /\ sweepPc = "new"
    /\ ticks = 0
    /\ errAtStart = [s \in servers |-> 0]
    /\ InitRegistry /\ InitLock /\ IdleRequest /\ IdleRace
    /\ IdleCopies /\ IdleLoops

\* mutant: wg.Wait returns as soon as one goroutine of the sweep has finished
AllPollsDone_Any(p) == \E i \in DOMAIN p : p[i] = "none"

\* wg.Wait: every goroutine of the sweep has called wg.Done
AllPollsDone(p) == \A i \in DOMAIN p : p[i] = "none"

\* checkAllServers up to wg.Wait: one goroutine per element of lb.servers
SpawnPolls ==
    /\ pollOf' = [i \in DOMAIN pollOf |-> "running"]
    /\ errAtStart' = [s \in servers |-> metrics[s].ErrorCount]

\* Start: the initial checkAllServers begins
StartInitialSweep ==
    /\ sweepPc = "new"
    /\ sweepPc' = "initialSweep"
    /\ SpawnPolls
    /\ UNCHANGED <<now, metrics, lbRest, lbServers, ticks, notSweep>>

\* the ticker, created by Start after the initial sweep, delivers a value;
\* with one already buffered the new one is dropped
TickerDelivers ==
    /\ sweepPc \in {"waiting", "sweep"}
    /\ ticks = 0
    /\ ticks' = 1
    /\ UNCHANGED <<now, metrics, lbRest, lbServers, pollOf, sweepPc,
                   errAtStart, notSweep>>

\* "for range ticker.C": the goroutine receives a value and calls
\* checkAllServers
RangeReceives ==
    /\ sweepPc = "waiting"
    /\ ticks = 1
    /\ ticks' = 0
    /\ sweepPc' = "sweep"
    /\ SpawnPolls
    /\ UNCHANGED <<now, metrics, lbRest, lbServers, notSweep>>

\* one checkServer goroutine ends with a parsed answer
PollSucceeds(i) ==
    /\ i \in DOMAIN pollOf
    /\ pollOf[i] = "running"
    /\ metrics' = checkServerUpdate(metrics, lbServers[i], SweepBody, now)
    /\ pollOf' = [pollOf EXCEPT ![i] = "none"]
    /\ UNCHANGED <<now, lbRest, lbServers, sweepPc, ticks, errAtStart,
                   notSweep>>

\* one checkServer goroutine ends in handleServerError
PollFails(i) ==
    /\ i \in DOMAIN pollOf
    /\ pollOf[i] = "running"
    /\ metrics[lbServers[i]].ErrorCount < MaxErrorCount
    /\ metrics' = handleServerError(metrics, lbServers[i], now)
    /\ pollOf' = [pollOf EXCEPT ![i] = "none"]
    /\ UNCHANGED <<now, lbRest, lbServers, sweepPc, ticks, errAtStart,
                   notSweep>>

\* wg.Wait returns and checkAllServers with it: Start goes on to create the
\* ticker and the goroutine, the goroutine goes back to ticker.C
WaitReturns ==
    /\ sweepPc \in {"initialSweep", "sweep"}
    /\ AllPollsDone(pollOf)
    /\ sweepPc' = "waiting"
    /\ UNCHANGED <<now, metrics, lbRest, lbServers, pollOf, ticks, errAtStart,
                   notSweep>>

NextSweep ==
    \/ StartInitialSweep
    \/ TickerDelivers
    \/ RangeReceives
    \/ \E i \in 1..2 : PollSucceeds(i)
    \/ \E i \in 1..2 : PollFails(i)
    \/ WaitReturns

SpecSweep == InitSpecSweep /\ [][NextSweep]_vars

\* the polls in flight of url
RunningPolls(p, url) ==
    { i \in DOMAIN p : p[i] = "running" /\ lbServers[i] = url }

\* C38: sweeps never overlap: polls are started only when none of the
\* previous sweep is still running, so at most one poll per configured URL
\* is in flight and an entry's ErrorCount rises by at most one per sweep.
C38_SweepsNeverOverlap ==
    [][/\ (\E i \in DOMAIN pollOf : pollOf[i] # "running" /\ pollOf'[i] = "running")
              => \A i \in DOMAIN pollOf : pollOf[i] = "none"
       /\ \A url \in servers :
              /\ Cardinality(RunningPolls(pollOf', url)) <= 1
              /\ metrics'[url].ErrorCount <= errAtStart'[url] + 1]_vars

\* it holds for a list that names every URL once
C38_NoOverlapOverDistinctURLs ==
    [][Cardinality(servers) = Len(lbServers) =>
          /\ (\E i \in DOMAIN pollOf : pollOf[i] # "running" /\ pollOf'[i] = "running")
                 => \A i \in DOMAIN pollOf : pollOf[i] = "none"
          /\ \A url \in servers :
                 /\ Cardinality(RunningPolls(pollOf', url)) <= 1
                 /\ metrics'[url].ErrorCount <= errAtStart'[url] + 1]_vars

\* and sweeps as such never overlap, whatever the list
C38_SweepAfterSweep ==
    [][(\E i \in DOMAIN pollOf : pollOf[i] # "running" /\ pollOf'[i] = "running")
          => \A i \in DOMAIN pollOf : pollOf[i] = "none"]_vars

\* C39: UpdateNodeStatus, IncrementErrorCount and RemoveNode on a host:port
\* that is not registered leave the registry as it was and emit no event, and
\* IncrementErrorCount returns false: a probe result arriving after its node
\* was removed does not create the node again.
C39_UnknownKeyIsNoOp ==
    [][(/\ regOp'.op \in {"UpdateNodeStatus", "IncrementErrorCount",
            "RemoveNode"}
        /\ ~regOp'.existed) =>
           /\ nodes' = nodes
           /\ regOp'.key \notin DOMAIN nodes'
           /\ regOp'.emitted = <<>>
           /\ regOp'.ret = FALSE]_vars

\* a healthy report for a key that is not registered, while another node is,
\* left the registry with that one node
C39_Witness ==
    /\ regOp.op = "UpdateNodeStatus"
    /\ regOp.status = NodeStatusHealthy
    /\ ~regOp.existed
    /\ regOp.key \notin DOMAIN nodes
    /\ Cardinality(DOMAIN nodes) = 1

====
